---- MODULE Spec2Model ----
(***************************************************************************)
(* Model of the tile streaming core of cog-rendered:                       *)
(*   WorkerPool  (packages/core/src/WorkerPool.ts)                         *)
(*   TileManager (packages/core/src/TileManager.ts, second class body)     *)
(* The control thread runs one macrotask at a time; the promise reactions  *)
(* (then / catch / await continuation) a macrotask schedules run as        *)
(* microtasks before the next macrotask, so every action below is the      *)
(* synchronous code of one macrotask followed by the drain of the          *)
(* reactions it scheduled.                                                 *)
(***************************************************************************)
EXTENDS Integers, Sequences, FiniteSets, Bags, TLC

VARIABLES
    taskQueue,      \* WorkerPool.taskQueue: sequence of tasks
    activeTasks,    \* WorkerPool.activeTasks: Map in insertion order, <<[w, task]>>
    workerStatus,   \* WorkerPool.workerStatus: worker index -> busy
    inbox,          \* per executor: bag of the messages posted to it and not yet answered
    futs,           \* the promises returned by process(), by creation order
    tiles,          \* TileManager.tiles: Map in insertion order, <<[key, obj]>>
    objs,           \* the Tile objects ever created, by creation order
    textures,       \* the GPU textures ever created: number of destroy() calls
    levels,         \* TileManager.levels
    globalMin, globalMax, hasGlobalStats,
    version,        \* TileManager.version
    selectedBands,  \* TileManager.selectedBands (abstract band selection)
    now,            \* Date.now()
    visibleTiles,   \* list returned by the last getVisibleTiles (0 = background)
    epoch,          \* number of init (src) and setBands (bands) calls so far
    pruneCall,      \* SpecPrune: the arguments of the last prune call
    levelCall,      \* SpecLevel: the arguments and the result of getBestLevel
    viewport,       \* the Viewport object (Viewport.ts)
    adra            \* the ADRAAnalyzer object and its readback (ADRAAnalyzer.ts)

vars == <<taskQueue, activeTasks, workerStatus, inbox, futs, tiles, objs,
          textures, levels, globalMin, globalMax, hasGlobalStats, version,
          selectedBands, now, visibleTiles, epoch, pruneCall, levelCall,
          viewport, adra>>

(***************************************************************************)
(* Bounds                                                                  *)
(***************************************************************************)
NumWorkers == 1     \* executors in the pool (min(hardwareConcurrency, maxWorkers))
MaxFutures == 3     \* process() calls in one behaviour
MaxTime == 1        \* largest clock value
MaxResets == 2      \* setBands / init calls in one behaviour
MaxBroadcast == 1   \* unanswered broadcast messages per executor

Workers == 0 .. (NumWorkers - 1)

Undefined == "undefined"
NoTask == [fut |-> 0, id |-> Undefined, priority |-> 0,
           payload |-> [type |-> Undefined, id |-> Undefined, bands |-> 0]]

Min(S) == CHOOSE m \in S : \A n \in S : m <= n

Abs(x) == IF x < 0 THEN 0 - x ELSE x

RECURSIVE GCD(_, _)
GCD(a, b) == IF b = 0 THEN a ELSE GCD(b, a % b)

(***************************************************************************)
(* The mutable state as one record, so that the imperative code of a       *)
(* handler can be threaded through operators.  micro is the microtask      *)
(* queue: the promise reactions scheduled and not yet run.                 *)
(***************************************************************************)
Cur ==
    [queue |-> taskQueue, active |-> activeTasks, status |-> workerStatus,
     inbox |-> inbox, futs |-> futs, tiles |-> tiles, objs |-> objs,
     textures |-> textures, levels |-> levels, gmin |-> globalMin,
     gmax |-> globalMax, hasStats |-> hasGlobalStats, version |-> version,
     bands |-> selectedBands, visible |-> visibleTiles, epoch |-> epoch,
     micro |-> <<>>]

Commit(st) ==
    /\ taskQueue' = st.queue
    /\ activeTasks' = st.active
    /\ workerStatus' = st.status
    /\ inbox' = st.inbox
    /\ futs' = st.futs
    /\ tiles' = st.tiles
    /\ objs' = st.objs
    /\ textures' = st.textures
    /\ levels' = st.levels
    /\ globalMin' = st.gmin
    /\ globalMax' = st.gmax
    /\ hasGlobalStats' = st.hasStats
    /\ version' = st.version
    /\ selectedBands' = st.bands
    /\ visibleTiles' = st.visible
    /\ epoch' = st.epoch

(***************************************************************************)
(* Promises.  resolve / reject of a settled promise is a no-op; the first  *)
(* settlement schedules the reaction.  A resolved promise records the      *)
(* epoch it was resolved in and whether it gave a tile its pixel data.      *)
(***************************************************************************)
Resolve(st, f, data) ==
    IF st.futs[f].state = "pending"
    THEN [st EXCEPT !.futs[f].state = "resolved",
                    !.futs[f].resolvedAt = st.epoch,
                    !.futs[f].hasData = (st.futs[f].kind = "tile" /\ data.hasData),
                    !.micro = Append(@, [fut |-> f, kind |-> "then", data |-> data])]
    ELSE st

Reject(st, f) ==
    IF st.futs[f].state = "pending"
    THEN [st EXCEPT !.futs[f].state = "rejected",
                    !.micro = Append(@, [fut |-> f, kind |-> "catch", data |-> <<>>])]
    ELSE st

(***************************************************************************)
(* Stable sort of a sequence of <<key, element>> pairs by ascending key    *)
(* (Array.prototype.sort is stable): a pair goes after the pairs with a    *)
(* smaller key and after the earlier pairs with the same key.              *)
(* (\o <<>> leaves a sequence as it is and has TLC evaluate it once.)      *)
(***************************************************************************)
SortPairs(ps) ==
    LET n == Len(ps)
        rank == [i \in 1 .. n |->
                    1 + Cardinality({j \in 1 .. n :
                                        \/ ps[j][1] < ps[i][1]
                                        \/ (ps[j][1] = ps[i][1] /\ j < i)})] \o <<>>
    IN [k \in 1 .. n |-> ps[CHOOSE i \in 1 .. n : rank[i] = k]] \o <<>>

\* a queue left in the order of its entries, never sorted
QueueAsEntered(q) == q

\* taskQueue.sort((a, b) => b.priority - a.priority)
SortQueue(q) ==
    LET ps == [i \in 1 .. Len(q) |-> <<0 - q[i].priority, q[i]>>]
        s == SortPairs(ps)
    IN [i \in 1 .. Len(q) |-> s[i][2]]

(***************************************************************************)
(* WorkerPool                                                              *)
(***************************************************************************)
\* taskQueue.findIndex(t => t.id === id), 0 when absent
FindQueued(q, id) ==
    IF \E i \in 1 .. Len(q) : q[i].id = id
    THEN Min({i \in 1 .. Len(q) : q[i].id = id})
    ELSE 0

\* activeTasks is a Map: entries in insertion order, <<[w, task]>>
ActiveGet(a, w) ==
    IF \E i \in 1 .. Len(a) : a[i].w = w
    THEN a[CHOOSE i \in 1 .. Len(a) : a[i].w = w].task
    ELSE NoTask

\* Map.set keeps the position of an existing key
ActiveSet(a, w, task) ==
    IF \E i \in 1 .. Len(a) : a[i].w = w
    THEN [i \in 1 .. Len(a) |-> IF a[i].w = w THEN [w |-> w, task |-> task] ELSE a[i]]
    ELSE Append(a, [w |-> w, task |-> task])

ActiveDelete(a, w) == SelectSeq(a, LAMBDA e : e.w # w)

ProcessNext(st) ==
    LET free == {w \in DOMAIN st.status : ~st.status[w]}
    IN IF free = {} THEN st
       ELSE IF st.queue = <<>> THEN st
       ELSE LET w == Min(free)
                task == Head(st.queue)
            IN [st EXCEPT !.queue = Tail(@),
                          !.status[w] = TRUE,
                          !.active = ActiveSet(@, w, task),
                          !.inbox[w] = @ (+) SetToBag({task.payload}),
                          !.futs[task.fut].dispatched = TRUE]

\* process that pushes every submission, without looking for a queued entry
ProcessAlwaysPush(st, id, payload, priority, handler) ==
    LET f == Len(st.futs) + 1
        task == [fut |-> f, id |-> id, priority |-> priority, payload |-> payload]
        fr == [id |-> id, state |-> "pending", dispatched |-> FALSE,
               kind |-> handler.kind, tile |-> handler.tile, epoch |-> st.epoch,
               resolvedAt |-> st.epoch, hasData |-> FALSE]
    IN ProcessNext([st EXCEPT !.futs = Append(@, fr),
                              !.queue = SortQueue(Append(st.queue, task))])

\* process(id, payload, priority); handler is the reaction its caller attaches
Process(st, id, payload, priority, handler) ==
    LET f == Len(st.futs) + 1
        task == [fut |-> f, id |-> id, priority |-> priority, payload |-> payload]
        fr == [id |-> id, state |-> "pending", dispatched |-> FALSE,
               kind |-> handler.kind, tile |-> handler.tile, epoch |-> st.epoch,
               resolvedAt |-> st.epoch, hasData |-> FALSE]
        existingIdx == FindQueued(st.queue, id)
        q1 == IF existingIdx # 0
              THEN [st.queue EXCEPT ![existingIdx] = task]
              ELSE Append(st.queue, task)
    IN ProcessNext([st EXCEPT !.futs = Append(@, fr), !.queue = SortQueue(q1)])

\* index of the first activeTasks entry whose task has this id, 0 when absent
FindActive(a, id) ==
    IF \E i \in 1 .. Len(a) : a[i].task.id = id
    THEN Min({i \in 1 .. Len(a) : a[i].task.id = id})
    ELSE 0

\* abort that rejects a queued task and leaves its entry in the queue
AbortKeepQueued(st, id) ==
    LET queueIndex == FindQueued(st.queue, id)
        activeIndex == FindActive(st.active, id)
    IN IF queueIndex # 0
       THEN Reject(st, st.queue[queueIndex].fut)
       ELSE IF activeIndex # 0
       THEN Reject(st, st.active[activeIndex].task.fut)
       ELSE st

Abort(st, id) ==
    LET queueIndex == FindQueued(st.queue, id)
        activeIndex == FindActive(st.active, id)
    IN IF queueIndex # 0
       THEN Reject([st EXCEPT !.queue = SubSeq(@, 1, queueIndex - 1)
                                         \o SubSeq(@, queueIndex + 1, Len(@))],
                   st.queue[queueIndex].fut)
       ELSE IF activeIndex # 0
       THEN Reject(st, st.active[activeIndex].task.fut)
       ELSE st

\* worker.onmessage of executor w, e.data = data
OnMessage(st, w, data) ==
    LET task == ActiveGet(st.active, w)
        s1 == IF task.fut # 0 /\ data.id = task.id
              THEN Resolve([st EXCEPT !.active = ActiveDelete(@, w)], task.fut, data)
              ELSE st
    IN ProcessNext([s1 EXCEPT !.status[w] = FALSE])

\* onerror that rejects the task and does not hand the executor a new one
OnErrorNoNext(st, w) ==
    LET task == ActiveGet(st.active, w)
    IN IF task.fut # 0
       THEN Reject([st EXCEPT !.active = ActiveDelete(@, w),
                              !.status[w] = FALSE], task.fut)
       ELSE st

\* worker.onerror of executor w
OnError(st, w) ==
    LET task == ActiveGet(st.active, w)
    IN IF task.fut # 0
       THEN ProcessNext(Reject([st EXCEPT !.active = ActiveDelete(@, w),
                                          !.status[w] = FALSE], task.fut))
       ELSE st

\* broadcast(payload)
Broadcast(st, payload) ==
    [st EXCEPT !.inbox = [w \in DOMAIN st.inbox |-> st.inbox[w] (+) SetToBag({payload})]]

(***************************************************************************)
(* TileManager                                                             *)
(***************************************************************************)
\* Pyramid metadata every source answers init with: a 4x2 image in 2x2
\* tiles (two tiles at level 0) and its half-resolution overview (one tile).
Levels ==
    << [index |-> 0, width |-> 4, height |-> 2, tileWidth |-> 2, tileHeight |-> 2],
       [index |-> 1, width |-> 2, height |-> 1, tileWidth |-> 2, tileHeight |-> 2] >>

\* Viewports the user can reach: center (world) = center[i] / unit,
\* zoom = zoom[1] / zoom[2], size
Viewports ==
    { [center |-> <<1, 1>>, unit |-> 1, zoom |-> <<1, 1>>, size |-> <<2, 2>>],
      [center |-> <<3, 1>>, unit |-> 1, zoom |-> <<1, 1>>, size |-> <<2, 2>>],
      [center |-> <<2, 1>>, unit |-> 1, zoom |-> <<1, 2>>, size |-> <<2, 2>>] }

\* band selections setBands is called with; the worker's suggestedBands
BandChoices == {2}
SuggestedBands == 1

\* 1000000000000 in the source.  The doubles between 2^39 and 2^40 are the
\* multiples of 2^-13, so a priority 1000000000000 - distSq is one of these;
\* priorities are counted in steps of 2^-13 below PRIORITY_BASE.  Only the
\* order of priorities matters and the squared distances of the viewports
\* stay far below PRIORITY_BASE; the priority of init-task is below all.
PRIORITY_BASE == 1000000000
INIT_PRIORITY == 100
STEPS_PER_UNIT == 8192

Floor(a, b) == a \div b
Ceil(a, b) == 0 - ((0 - a) \div b)
Max2(a, b) == IF a >= b THEN a ELSE b
Min2(a, b) == IF a <= b THEN a ELSE b

\* `${levelIndex}-${x}-${y}`
TileKey(z, x, y) == ToString(z) \o "-" \o ToString(x) \o "-" \o ToString(y)

\* the loop of getBestLevel without the break at the first level that is too coarse
RECURSIVE BestLevelNoBreak(_, _, _, _)
BestLevelNoBreak(lv, vp, i, bestLevel) ==
    IF i >= Len(lv) THEN bestLevel
    ELSE IF lv[1].width * vp.zoom[1] <= lv[i + 1].width * vp.zoom[2]
    THEN BestLevelNoBreak(lv, vp, i + 1, i)
    ELSE BestLevelNoBreak(lv, vp, i + 1, bestLevel)

RECURSIVE BestLevelFrom(_, _, _, _)
BestLevelFrom(lv, vp, i, bestLevel) ==
    IF i >= Len(lv) THEN bestLevel
    \* levelRes <= targetRes, i.e. imageWidth / width <= 1 / zoom
    ELSE IF lv[1].width * vp.zoom[1] <= lv[i + 1].width * vp.zoom[2]
    THEN BestLevelFrom(lv, vp, i + 1, i)
    ELSE bestLevel

GetBestLevel(lv, vp) ==
    IF Len(lv) = 0 THEN 0 ELSE BestLevelFrom(lv, vp, 0, 0)

\* the levels sorted by ascending index, finest first
SortedLevelsAscending(lv) ==
    LET s == SortPairs([i \in 1 .. Len(lv) |-> <<lv[i].index, lv[i]>>])
    IN [i \in 1 .. Len(lv) |-> s[i][2]]

\* [...levels].sort((a, b) => b.index - a.index)
SortedLevels(lv) ==
    LET s == SortPairs([i \in 1 .. Len(lv) |-> <<0 - lv[i].index, lv[i]>>])
    IN [i \in 1 .. Len(lv) |-> s[i][2]]

\* the index range without the clamps to the grid of the level
IndexRangeNoClamp(lv, level, vp) ==
    LET zn == vp.zoom[1]
        zd == vp.zoom[2]
        den == 2 * zn * vp.unit * lv[1].width
        minXn == (2 * zn * vp.center[1] - vp.size[1] * zd * vp.unit) * level.width
        maxXn == (2 * zn * vp.center[1] + vp.size[1] * zd * vp.unit) * level.width
        minYn == (2 * zn * vp.center[2] - vp.size[2] * zd * vp.unit) * level.width
        maxYn == (2 * zn * vp.center[2] + vp.size[2] * zd * vp.unit) * level.width
    IN [startX |-> Floor(minXn, den * level.tileWidth),
        endX |-> Ceil(maxXn, den * level.tileWidth),
        startY |-> Floor(minYn, den * level.tileHeight),
        endY |-> Ceil(maxYn, den * level.tileHeight)]

\* tile index range of the viewport at a level: startX, endX, startY, endY.
\* lMinX / tileW = (center - size / 2 / zoom) / downscale / tileW with
\* downscale = levels[0].width / level.width, computed exactly on fractions.
IndexRange(lv, level, vp) ==
    LET zn == vp.zoom[1]
        zd == vp.zoom[2]
        den == 2 * zn * vp.unit * lv[1].width
        minXn == (2 * zn * vp.center[1] - vp.size[1] * zd * vp.unit) * level.width
        maxXn == (2 * zn * vp.center[1] + vp.size[1] * zd * vp.unit) * level.width
        minYn == (2 * zn * vp.center[2] - vp.size[2] * zd * vp.unit) * level.width
        maxYn == (2 * zn * vp.center[2] + vp.size[2] * zd * vp.unit) * level.width
    IN [startX |-> Max2(0, Floor(minXn, den * level.tileWidth)),
        endX |-> Min2(Ceil(level.width, level.tileWidth),
                      Ceil(maxXn, den * level.tileWidth)),
        startY |-> Max2(0, Floor(minYn, den * level.tileHeight)),
        endY |-> Min2(Ceil(level.height, level.tileHeight),
                      Ceil(maxYn, den * level.tileHeight))]

\* the (z, x, y) the nested loops of getVisibleTiles visit, in visiting order
RECURSIVE RowCoords(_, _, _, _)
RowCoords(z, y, x, endX) ==
    IF x >= endX THEN <<>> ELSE <<<<z, x, y>>>> \o RowCoords(z, y, x + 1, endX)

RECURSIVE LevelCoords(_, _, _)
LevelCoords(z, r, y) ==
    IF y >= r.endY THEN <<>>
    ELSE RowCoords(z, y, r.startX, r.endX) \o LevelCoords(z, r, y + 1)

RECURSIVE VisitOrder(_, _, _, _)
VisitOrder(lv, sorted, vp, i) ==
    IF i > Len(sorted) THEN <<>>
    ELSE LET r == IndexRange(lv, sorted[i], vp)
         IN LevelCoords(sorted[i].index, r, r.startY)
            \o VisitOrder(lv, sorted, vp, i + 1)

\* this.tiles.get(key): index of the Tile object, 0 when absent
TileGet(ts, key) ==
    IF \E i \in 1 .. Len(ts) : ts[i].key = key
    THEN ts[CHOOSE i \in 1 .. Len(ts) : ts[i].key = key].obj
    ELSE 0

TileDelete(ts, key) == SelectSeq(ts, LAMBDA e : e.key # key)

\* texture.destroy()
Destroy(st, tex) ==
    IF tex = 0 THEN st ELSE [st EXCEPT !.textures[tex] = @ + 1]

\* the integer nearest to a / b, the even one of two equally near (a double
\* operation rounds to nearest, ties to even); a >= 0, b > 0
RoundHalfEven(a, b) ==
    LET q == a \div b
        r == a % b
    IN IF 2 * r < b THEN q
       ELSE IF 2 * r > b THEN q + 1
       ELSE IF q % 2 = 0 THEN q ELSE q + 1

\* distSq of a tile and a viewport, counted in squares of 1 / (2 * unit):
\* dx and dy are multiples of half a unit, and the sum of their squares is
\* exact in double precision for the viewports of the model
DistSq(tile, vp) ==
    LET dx == (2 * tile.worldX + tile.width) * vp.unit - 2 * vp.center[1]
        dy == (2 * tile.worldY + tile.height) * vp.unit - 2 * vp.center[2]
    IN dx * dx + dy * dy

\* priority of a request: 1000000000000 - distSq, rounded to a double, i.e.
\* distSq / (2 * unit)^2 rounded to whole steps
Priority(tile, vp) ==
    LET distSq == DistSq(tile, vp)
        d == vp.unit * vp.unit
        g == GCD(STEPS_PER_UNIT \div 4, d)
    IN PRIORITY_BASE
         - RoundHalfEven(distSq * ((STEPS_PER_UNIT \div 4) \div g), d \div g)

\* the loop body without the update of lastUsed of a tile that is cached
VisitTileNoTouch(acc, c, targetLevelIndex, vp, t) ==
    LET st == acc.st
        z == c[1]
        x == c[2]
        y == c[3]
        level == st.levels[z + 1]
        downscale == st.levels[1].width \div level.width
        key == TileKey(z, x, y)
        old == TileGet(st.tiles, key)
        fresh == [id |-> key, x |-> x, y |-> y, z |-> z, loaded |-> FALSE,
                  worldX |-> x * level.tileWidth * downscale,
                  worldY |-> y * level.tileHeight * downscale,
                  width |-> level.tileWidth * downscale,
                  height |-> level.tileHeight * downscale,
                  texture |-> 0, lastUsed |-> t, min |-> 0, max |-> 0]
        create == z = targetLevelIndex /\ old = 0
        o == IF create THEN Len(st.objs) + 1 ELSE old
        s1 == IF create
              THEN [st EXCEPT !.objs = Append(@, fresh),
                              !.tiles = Append(@, [key |-> key, obj |-> o])]
              ELSE st
        request == z = targetLevelIndex /\ (old = 0 \/ ~st.objs[old].loaded)
        reqs1 == IF request
                 THEN Append(acc.reqs, [tile |-> o, index |-> level.index,
                                        priority |-> Priority(s1.objs[o], vp)])
                 ELSE acc.reqs
        s2 == s1
        s3 == IF o # 0 /\ s2.objs[o].loaded /\ s2.objs[o].texture # 0
              THEN [s2 EXCEPT !.visible = Append(@, o)]
              ELSE s2
    IN [st |-> s3, reqs |-> reqs1, req |-> acc.req \cup {key}]

\* the loop body requesting every tile of the target level, loaded or not
VisitTileAlwaysRequest(acc, c, targetLevelIndex, vp, t) ==
    LET st == acc.st
        z == c[1]
        x == c[2]
        y == c[3]
        level == st.levels[z + 1]
        downscale == st.levels[1].width \div level.width
        key == TileKey(z, x, y)
        old == TileGet(st.tiles, key)
        fresh == [id |-> key, x |-> x, y |-> y, z |-> z, loaded |-> FALSE,
                  worldX |-> x * level.tileWidth * downscale,
                  worldY |-> y * level.tileHeight * downscale,
                  width |-> level.tileWidth * downscale,
                  height |-> level.tileHeight * downscale,
                  texture |-> 0, lastUsed |-> t, min |-> 0, max |-> 0]
        create == z = targetLevelIndex /\ old = 0
        o == IF create THEN Len(st.objs) + 1 ELSE old
        s1 == IF create
              THEN [st EXCEPT !.objs = Append(@, fresh),
                              !.tiles = Append(@, [key |-> key, obj |-> o])]
              ELSE st
        request == z = targetLevelIndex
        reqs1 == IF request
                 THEN Append(acc.reqs, [tile |-> o, index |-> level.index,
                                        priority |-> Priority(s1.objs[o], vp)])
                 ELSE acc.reqs
        s2 == IF o # 0 THEN [s1 EXCEPT !.objs[o].lastUsed = t] ELSE s1
        s3 == IF o # 0 /\ s2.objs[o].loaded /\ s2.objs[o].texture # 0
              THEN [s2 EXCEPT !.visible = Append(@, o)]
              ELSE s2
    IN [st |-> s3, reqs |-> reqs1, req |-> acc.req \cup {key}]

\* body of the inner loop of getVisibleTiles for one (z, x, y);
\* acc = [st, reqs (pendingRequests), req (requiredTiles)]
VisitTile(acc, c, targetLevelIndex, vp, t) ==
    LET st == acc.st
        z == c[1]
        x == c[2]
        y == c[3]
        level == st.levels[z + 1]
        downscale == st.levels[1].width \div level.width
        key == TileKey(z, x, y)
        old == TileGet(st.tiles, key)
        fresh == [id |-> key, x |-> x, y |-> y, z |-> z, loaded |-> FALSE,
                  worldX |-> x * level.tileWidth * downscale,
                  worldY |-> y * level.tileHeight * downscale,
                  width |-> level.tileWidth * downscale,
                  height |-> level.tileHeight * downscale,
                  texture |-> 0, lastUsed |-> t, min |-> 0, max |-> 0]
        create == z = targetLevelIndex /\ old = 0
        o == IF create THEN Len(st.objs) + 1 ELSE old
        s1 == IF create
              THEN [st EXCEPT !.objs = Append(@, fresh),
                              !.tiles = Append(@, [key |-> key, obj |-> o])]
              ELSE st
        request == z = targetLevelIndex /\ (old = 0 \/ ~st.objs[old].loaded)
        reqs1 == IF request
                 THEN Append(acc.reqs, [tile |-> o, index |-> level.index,
                                        priority |-> Priority(s1.objs[o], vp)])
                 ELSE acc.reqs
        s2 == IF o # 0 THEN [s1 EXCEPT !.objs[o].lastUsed = t] ELSE s1
        s3 == IF o # 0 /\ s2.objs[o].loaded /\ s2.objs[o].texture # 0
              THEN [s2 EXCEPT !.visible = Append(@, o)]
              ELSE s2
    IN [st |-> s3, reqs |-> reqs1, req |-> acc.req \cup {key}]

RECURSIVE VisitAll(_, _, _, _, _, _)
VisitAll(acc, coords, i, targetLevelIndex, vp, t) ==
    IF i > Len(coords) THEN acc
    ELSE VisitAll(VisitTile(acc, coords[i], targetLevelIndex, vp, t),
                  coords, i + 1, targetLevelIndex, vp, t)

\* requestTile(tile, index, priority): the request and its then / catch
RequestTile(st, o, index, priority) ==
    LET tile == st.objs[o]
        req == [type |-> "decode", id |-> tile.id, bands |-> st.bands]
    IN Process(st, tile.id, req, priority, [kind |-> "tile", tile |-> o])

RECURSIVE RequestAll(_, _, _)
RequestAll(st, reqs, i) ==
    IF i > Len(reqs) THEN st
    ELSE RequestAll(RequestTile(st, reqs[i].tile, reqs[i].index, reqs[i].priority),
                    reqs, i + 1)

\* the cancel loop of getVisibleTiles over the Map's entries
RECURSIVE CancelAll(_, _, _, _)
CancelAll(st, entries, i, required) ==
    IF i > Len(entries) THEN st
    ELSE CancelAll(IF ~st.objs[entries[i].obj].loaded /\ entries[i].key \notin required
                   THEN Abort(st, entries[i].key)
                   ELSE st,
                   entries, i + 1, required)

\* the loop of prune without the test of lastUsed against activeTime
RECURSIVE PruneLoopNoSkip(_, _, _, _, _, _)
PruneLoopNoSkip(st, entries, i, removed, toRemove, activeTime) ==
    IF i > Len(entries) THEN st
    ELSE IF removed >= toRemove THEN st
    ELSE LET s1 == Destroy(st, st.objs[entries[i].obj].texture)
             s2 == Abort(s1, entries[i].key)
             s3 == [s2 EXCEPT !.tiles = TileDelete(@, entries[i].key)]
         IN PruneLoopNoSkip(s3, entries, i + 1, removed + 1, toRemove, activeTime)

\* the loop of prune over the entries sorted by lastUsed
RECURSIVE PruneLoop(_, _, _, _, _, _)
PruneLoop(st, entries, i, removed, toRemove, activeTime) ==
    IF i > Len(entries) THEN st
    ELSE IF removed >= toRemove THEN st
    ELSE IF st.objs[entries[i].obj].lastUsed = activeTime
    THEN PruneLoop(st, entries, i + 1, removed, toRemove, activeTime)
    ELSE LET s1 == Destroy(st, st.objs[entries[i].obj].texture)
             s2 == Abort(s1, entries[i].key)
             s3 == [s2 EXCEPT !.tiles = TileDelete(@, entries[i].key)]
         IN PruneLoop(s3, entries, i + 1, removed + 1, toRemove, activeTime)

\* prune that walks the entries in the order of the Map, without sorting them
PruneUnsorted(st, activeTime, limit, buffer) ==
    IF Len(st.tiles) <= limit THEN st
    ELSE LET targetSize == limit - buffer
             toRemove == Max2(0, Len(st.tiles) - targetSize)
         IN PruneLoop(st, st.tiles, 1, 0, toRemove, activeTime)

\* prune(activeTime) with the ceiling and the headroom as parameters
Prune(st, activeTime, limit, buffer) ==
    IF Len(st.tiles) <= limit THEN st
    ELSE LET ps == [i \in 1 .. Len(st.tiles) |->
                       <<st.objs[st.tiles[i].obj].lastUsed, st.tiles[i]>>] \o <<>>
             s == SortPairs(ps)
             entries == [i \in 1 .. Len(s) |-> s[i][2]] \o <<>>
             targetSize == limit - buffer
             toRemove == Max2(0, Len(st.tiles) - targetSize)
         IN PruneLoop(st, entries, 1, 0, toRemove, activeTime)

\* the source's ceiling is 1000 tiles with a headroom of 50; scaled down to
\* the three tiles of Levels so that eviction happens
CacheLimit == 1
CacheBuffer == 1

\* getVisibleTiles pushing the background tile only once levels are known
GetVisibleTilesLevelsFirst(st, vp, t) ==
    IF Len(st.levels) = 0 THEN [st EXCEPT !.visible = <<>>]
    ELSE LET s0 == [st EXCEPT !.visible = <<0>>]
             targetLevelIndex == GetBestLevel(st.levels, vp)
             coords == VisitOrder(st.levels, SortedLevels(st.levels), vp, 1)
             acc == VisitAll([st |-> s0, reqs |-> <<>>, req |-> {}],
                             coords, 1, targetLevelIndex, vp, t)
             ps == SortPairs([i \in 1 .. Len(acc.reqs) |->
                                 <<0 - acc.reqs[i].priority, acc.reqs[i]>>])
             pendingRequests == [i \in 1 .. Len(ps) |-> ps[i][2]]
             s1 == RequestAll(acc.st, pendingRequests, 1)
             s2 == CancelAll(s1, s1.tiles, 1, acc.req)
         IN Prune(s2, t, CacheLimit, CacheBuffer)

\* getVisibleTiles that takes the finest level for its target
GetVisibleTilesFinest(st, vp, t) ==
    LET s0 == [st EXCEPT !.visible = <<0>>]
    IN IF Len(st.levels) = 0 THEN s0
       ELSE LET targetLevelIndex == 0
                coords == VisitOrder(st.levels, SortedLevels(st.levels), vp, 1)
                acc == VisitAll([st |-> s0, reqs |-> <<>>, req |-> {}],
                                coords, 1, targetLevelIndex, vp, t)
                ps == SortPairs([i \in 1 .. Len(acc.reqs) |->
                                    <<0 - acc.reqs[i].priority, acc.reqs[i]>>])
                pendingRequests == [i \in 1 .. Len(ps) |-> ps[i][2]]
                s1 == RequestAll(acc.st, pendingRequests, 1)
                s2 == CancelAll(s1, s1.tiles, 1, acc.req)
            IN Prune(s2, t, CacheLimit, CacheBuffer)

\* getVisibleTiles(viewport) at Date.now() = t; grayBindGroup exists since
\* the constructor, so the background tile (0) is always pushed
GetVisibleTiles(st, vp, t) ==
    LET s0 == [st EXCEPT !.visible = <<0>>]
    IN IF Len(st.levels) = 0 THEN s0
       ELSE LET targetLevelIndex == GetBestLevel(st.levels, vp)
                coords == VisitOrder(st.levels, SortedLevels(st.levels), vp, 1)
                acc == VisitAll([st |-> s0, reqs |-> <<>>, req |-> {}],
                                coords, 1, targetLevelIndex, vp, t)
                ps == SortPairs([i \in 1 .. Len(acc.reqs) |->
                                    <<0 - acc.reqs[i].priority, acc.reqs[i]>>])
                pendingRequests == [i \in 1 .. Len(ps) |-> ps[i][2]]
                s1 == RequestAll(acc.st, pendingRequests, 1)
                s2 == CancelAll(s1, s1.tiles, 1, acc.req)
            IN Prune(s2, t, CacheLimit, CacheBuffer)

\* uploadTile(tile, data): a new texture (and bind group) for the tile
UploadTile(st, o) ==
    [st EXCEPT !.textures = Append(@, 0),
               !.objs[o].texture = Len(st.textures) + 1]

\* handleTileDecoded that leaves the version as it is
HandleTileDecodedNoBump(st, o, result) ==
    IF ~result.hasData THEN st
    ELSE LET s1 == IF ~st.hasStats
                   THEN [st EXCEPT !.gmin = result.min, !.gmax = result.max,
                                   !.hasStats = TRUE]
                   ELSE [st EXCEPT !.gmin = IF result.min < @ THEN result.min ELSE @,
                                   !.gmax = IF result.max > @ THEN result.max ELSE @]
             s2 == UploadTile(s1, o)
         IN [s2 EXCEPT !.objs[o].loaded = TRUE,
                       !.objs[o].min = result.min,
                       !.objs[o].max = result.max]

\* handleTileDecoded that takes the range of the last tile for GlobalStats
HandleTileDecodedLastTile(st, o, result) ==
    IF ~result.hasData THEN st
    ELSE LET s1 == IF ~st.hasStats
                   THEN [st EXCEPT !.gmin = result.min, !.gmax = result.max,
                                   !.hasStats = TRUE]
                   ELSE [st EXCEPT !.gmin = result.min, !.gmax = result.max]
             s2 == UploadTile(s1, o)
         IN [s2 EXCEPT !.objs[o].loaded = TRUE,
                       !.objs[o].min = result.min,
                       !.objs[o].max = result.max,
                       !.version = @ + 1]

\* handleTileDecoded(tile, result)
HandleTileDecoded(st, o, result) ==
    IF ~result.hasData THEN st
    ELSE LET s1 == IF ~st.hasStats
                   THEN [st EXCEPT !.gmin = result.min, !.gmax = result.max,
                                   !.hasStats = TRUE]
                   ELSE [st EXCEPT !.gmin = IF result.min < @ THEN result.min ELSE @,
                                   !.gmax = IF result.max > @ THEN result.max ELSE @]
             s2 == UploadTile(s1, o)
         IN [s2 EXCEPT !.objs[o].loaded = TRUE,
                       !.objs[o].min = result.min,
                       !.objs[o].max = result.max,
                       !.version = @ + 1]

\* .then of requestTile
TileThen(st, o, data) ==
    IF data.hasData THEN HandleTileDecoded(st, o, data) ELSE st

\* .catch of requestTile
TileCatch(st, o) ==
    LET id == st.objs[o].id
        t == TileGet(st.tiles, id)
    IN IF t # 0
       THEN [Destroy(st, st.objs[t].texture) EXCEPT !.tiles = TileDelete(@, id)]
       ELSE st

\* continuation of init after the await
InitThen(st, response) ==
    [st EXCEPT !.levels = Levels, !.bands = SuggestedBands]

\* one promise reaction
React(st, m) ==
    LET f == st.futs[m.fut]
    IN IF f.kind = "tile" /\ m.kind = "then" THEN TileThen(st, f.tile, m.data)
       ELSE IF f.kind = "tile" /\ m.kind = "catch" THEN TileCatch(st, f.tile)
       ELSE IF f.kind = "init" /\ m.kind = "then" THEN InitThen(st, m.data)
       ELSE st

\* run the microtask queue until it is empty
RECURSIVE Drain(_)
Drain(st) ==
    IF st.micro = <<>> THEN st
    ELSE Drain(React([st EXCEPT !.micro = Tail(@)], Head(st.micro)))

\* { type: 'init', source } and { type: 'init', source, id: 'init-task' }
InitBroadcast == [type |-> "init", id |-> Undefined, bands |-> 0]
InitTask == [type |-> "init", id |-> "init-task", bands |-> 0]

RECURSIVE DestroyAll(_, _, _)
DestroyAll(st, entries, i) ==
    IF i > Len(entries) THEN st
    ELSE DestroyAll(Destroy(st, st.objs[entries[i].obj].texture), entries, i + 1)

\* the synchronous part of init(source), up to the await
InitSource(st) ==
    LET s1 == [DestroyAll(st, st.tiles, 1) EXCEPT
                  !.tiles = <<>>, !.levels = <<>>, !.bands = 0,
                  !.gmin = 0, !.gmax = 1, !.hasStats = FALSE, !.version = 0,
                  !.epoch.src = @ + 1]
        s2 == Broadcast(s1, InitBroadcast)
    IN Process(s2, "init-task", InitTask,
               INIT_PRIORITY, [kind |-> "init", tile |-> 0])

RECURSIVE DestroyAbortAll(_, _, _)
DestroyAbortAll(st, entries, i) ==
    IF i > Len(entries) THEN st
    ELSE DestroyAbortAll(Abort(Destroy(st, st.objs[entries[i].obj].texture),
                               st.objs[entries[i].obj].id),
                         entries, i + 1)

\* setBands(bandIndices)
SetBands(st, bandIndices) ==
    [DestroyAbortAll([st EXCEPT !.bands = bandIndices], st.tiles, 1) EXCEPT
        !.tiles = <<>>, !.gmin = 0, !.gmax = 1, !.hasStats = FALSE,
        !.version = @ + 1, !.epoch.bands = @ + 1]

(***************************************************************************)
(* Executors (decoder.worker.ts): every message is answered once, with the *)
(* id of the message; the handler is async, so the answers of one executor *)
(* can come in any order.                                                  *)
(***************************************************************************)
\* min / max of the samples of a tile of the source
TileStats(id) ==
    IF id = "0-0-0" THEN <<1, 2>>
    ELSE IF id = "0-1-0" THEN <<0, 3>>
    ELSE <<1, 4>>

Replies(msg) ==
    IF msg.type = "init"
    THEN {[type |-> "init-complete", id |-> msg.id, hasData |-> FALSE,
           min |-> 0, max |-> 0]}
    ELSE {[type |-> "tile-decoded", id |-> msg.id, hasData |-> TRUE,
           min |-> TileStats(msg.id)[1], max |-> TileStats(msg.id)[2]],
          [type |-> "tile-decoded", id |-> msg.id, hasData |-> FALSE,
           min |-> 0, max |-> 0]}

(***************************************************************************)
(* Numbers.  The numbers of Viewport and ADRAAnalyzer are modelled as      *)
(* fractions <<numerator, denominator>> in lowest terms with a positive    *)
(* denominator, so that equal numbers are equal tuples.  The inputs below  *)
(* are chosen so that the floating point operations of the source are      *)
(* exact on them or decide comparisons as the fractions do.                *)
(***************************************************************************)
Frac(n, d) ==
    LET g == GCD(Abs(n), Abs(d))
        s == IF d < 0 THEN 0 - 1 ELSE 1
    IN <<(s * n) \div g, (s * d) \div g>>

Num(n) == <<n, 1>>
FAdd(a, b) == Frac(a[1] * b[2] + b[1] * a[2], a[2] * b[2])
FSub(a, b) == Frac(a[1] * b[2] - b[1] * a[2], a[2] * b[2])
FMul(a, b) == Frac(a[1] * b[1], a[2] * b[2])
FDiv(a, b) == Frac(a[1] * b[2], a[2] * b[1])
FLess(a, b) == a[1] * b[2] < b[1] * a[2]
\* Math.ceil
FCeiling(a) == 0 - ((0 - a[1]) \div a[2])

\* Math.floor
FFloor(a) == a[1] \div a[2]

(***************************************************************************)
(* Viewport (Viewport.ts).  uniform is the content of the uniform buffer   *)
(* update() writes; calls counts the mutator calls made so far.            *)
(***************************************************************************)
NewViewport ==
    [center |-> <<Num(0), Num(0)>>, zoom |-> Num(1),
     size |-> <<Num(800), Num(600)>>, minZoom |-> <<1, 10000>>,
     uniform |-> <<Num(0), Num(0), Num(0), Num(0)>>, calls |-> 0]

\* update(): center and scale go to the uniform buffer
ViewportUpdate(v) ==
    [v EXCEPT !.uniform =
        <<v.center[1], v.center[2],
          FDiv(FMul(Num(2), v.zoom), v.size[1]),
          FDiv(FMul(Num(0 - 2), v.zoom), v.size[2])>>]

Resize(v, width, height) == ViewportUpdate([v EXCEPT !.size = <<width, height>>])
SetCenter(v, x, y) == ViewportUpdate([v EXCEPT !.center = <<x, y>>])
SetZoom(v, z) == ViewportUpdate([v EXCEPT !.zoom = z])
Move(v, dx, dy) ==
    ViewportUpdate([v EXCEPT !.center = <<FAdd(@[1], dx), FAdd(@[2], dy)>>])

\* zoomAt(factor, x, y) that leaves the center where it was
ZoomAtKeepCenter(v, factor, x, y) ==
    ViewportUpdate([v EXCEPT !.zoom = FMul(v.zoom, factor)])

\* zoomAt(factor, x, y); the zoom is never 0 for the inputs of SpecViewport,
\* so no division yields Infinity or NaN
ZoomAt(v, factor, x, y) ==
    LET halfW == FDiv(v.size[1], Num(2))
        halfH == FDiv(v.size[2], Num(2))
        worldX == FAdd(FDiv(FSub(x, halfW), v.zoom), v.center[1])
        worldY == FAdd(FDiv(FSub(y, halfH), v.zoom), v.center[2])
        zoom == FMul(v.zoom, factor)
    IN ViewportUpdate([v EXCEPT
          !.zoom = zoom,
          !.center = <<FSub(worldX, FDiv(FSub(x, halfW), zoom)),
                       FSub(worldY, FDiv(FSub(y, halfH), zoom))>>])

(***************************************************************************)
(* ADRAAnalyzer (ADRAAnalyzer.ts).  Besides the fields of the object the   *)
(* record holds its environment and history: clock is performance.now(),   *)
(* mapPending says that the promise of mapAsync is not settled, updated is  *)
(* the flag the last update call returned, analyses counts the calls of    *)
(* performGPUAnalysis, optionCalls those of setOptions, done describes the  *)
(* last analysis that ended, changed names what differed from the stored   *)
(* values when the last analysis started, started holds the viewport       *)
(* signature, the options, the version and the clock of that start, and    *)
(* optionsPending says that setOptions was called and no analysis has      *)
(* started since.  A signature is a tuple, the empty string of the source  *)
(* the empty tuple.                                                        *)
(***************************************************************************)
THROTTLE_MS == 100

\* the options the renderer starts with
DefaultOptions == [clipLow |-> 1, clipHigh |-> 99, padLow |-> 50, padHigh |-> 20]

NoAnalysis == [outcome |-> "none", samples |-> <<>>, options |-> DefaultOptions]

NewAnalyzer ==
    [isAnalyzing |-> FALSE, lastUpdateVersion |-> 0 - 1,
     lastViewportSignature |-> <<>>, lastOptionsSignature |-> <<>>,
     lastCalcTime |-> 0, currentStats |-> [min |-> Num(0), max |-> Num(1)],
     options |-> DefaultOptions,
     clock |-> 0, mapPending |-> FALSE, updated |-> FALSE,
     analyses |-> 0, optionCalls |-> 0, done |-> NoAnalysis,
     changed |-> {}, optionsPending |-> FALSE,
     started |-> [vpSig |-> <<>>, options |-> DefaultOptions,
                  version |-> 0 - 1, time |-> 0]]

\* x.toFixed(2): the sign and the hundredths nearest to |x|, the larger of
\* two equally near ones; a negative x keeps its sign when it rounds to 0
ToFixed2(x) ==
    [neg |-> x[1] < 0, hundredths |-> (200 * Abs(x[1]) + x[2]) \div (2 * x[2])]

\* `${center[0].toFixed(2)},${center[1].toFixed(2)},${zoom.toFixed(2)}`
ViewportSignature(vp) ==
    <<ToFixed2(vp.center[1]), ToFixed2(vp.center[2]), ToFixed2(vp.zoom)>>

\* JSON.stringify(options): the keys keep their order (setOptions spreads
\* the old options first), so equal strings are equal option records
OptionsSignature(options) == <<options>>

\* performGPUAnalysis: the render pass, the copy and the call of mapAsync
PerformGPUAnalysis(a) == [a EXCEPT !.mapPending = TRUE, !.analyses = @ + 1]

\* update(...) that records the signatures before it looks at the clock
UpdateSignaturesFirst(a, vp, tileManagerVersion) ==
    LET vpSig == ViewportSignature(vp)
        optSig == OptionsSignature(a.options)
        needsUpdate == \/ vpSig # a.lastViewportSignature
                       \/ optSig # a.lastOptionsSignature
                       \/ tileManagerVersion # a.lastUpdateVersion
        a1 == [a EXCEPT !.lastViewportSignature = vpSig,
                        !.lastOptionsSignature = optSig,
                        !.lastUpdateVersion = tileManagerVersion]
    IN IF ~needsUpdate THEN [a EXCEPT !.updated = FALSE]
       ELSE IF a.clock - a.lastCalcTime < THROTTLE_MS
            THEN [a1 EXCEPT !.updated = FALSE]
       ELSE IF a.isAnalyzing THEN [a1 EXCEPT !.updated = FALSE]
       ELSE [PerformGPUAnalysis([a1 EXCEPT !.isAnalyzing = TRUE]) EXCEPT
                !.lastCalcTime = a.clock,
                !.updated = TRUE]

\* update(...) without the check of isAnalyzing
UpdateNoBusyCheck(a, vp, tileManagerVersion) ==
    LET vpSig == ViewportSignature(vp)
        optSig == OptionsSignature(a.options)
        needsUpdate == \/ vpSig # a.lastViewportSignature
                       \/ optSig # a.lastOptionsSignature
                       \/ tileManagerVersion # a.lastUpdateVersion
    IN IF ~needsUpdate THEN [a EXCEPT !.updated = FALSE]
       ELSE IF a.clock - a.lastCalcTime < THROTTLE_MS
            THEN [a EXCEPT !.updated = FALSE]
       ELSE [PerformGPUAnalysis([a EXCEPT !.isAnalyzing = TRUE]) EXCEPT
                !.lastViewportSignature = vpSig,
                !.lastOptionsSignature = optSig,
                !.lastUpdateVersion = tileManagerVersion,
                !.lastCalcTime = a.clock,
                !.updated = TRUE]

\* update(...) without the throttle
UpdateNoThrottle(a, vp, tileManagerVersion) ==
    LET vpSig == ViewportSignature(vp)
        optSig == OptionsSignature(a.options)
        needsUpdate == \/ vpSig # a.lastViewportSignature
                       \/ optSig # a.lastOptionsSignature
                       \/ tileManagerVersion # a.lastUpdateVersion
    IN IF ~needsUpdate THEN [a EXCEPT !.updated = FALSE]
       ELSE IF a.isAnalyzing THEN [a EXCEPT !.updated = FALSE]
       ELSE [PerformGPUAnalysis([a EXCEPT !.isAnalyzing = TRUE]) EXCEPT
                !.lastViewportSignature = vpSig,
                !.lastOptionsSignature = optSig,
                !.lastUpdateVersion = tileManagerVersion,
                !.lastCalcTime = a.clock,
                !.updated = TRUE]

\* update(visibleTiles, viewport, settingsBuffer, tileManagerVersion)
Update(a, vp, tileManagerVersion) ==
    LET vpSig == ViewportSignature(vp)
        optSig == OptionsSignature(a.options)
        needsUpdate == \/ vpSig # a.lastViewportSignature
                       \/ optSig # a.lastOptionsSignature
                       \/ tileManagerVersion # a.lastUpdateVersion
    IN IF ~needsUpdate THEN [a EXCEPT !.updated = FALSE]
       ELSE IF a.clock - a.lastCalcTime < THROTTLE_MS
            THEN [a EXCEPT !.updated = FALSE]
       ELSE IF a.isAnalyzing THEN [a EXCEPT !.updated = FALSE]
       ELSE [PerformGPUAnalysis([a EXCEPT !.isAnalyzing = TRUE]) EXCEPT
                !.lastViewportSignature = vpSig,
                !.lastOptionsSignature = optSig,
                !.lastUpdateVersion = tileManagerVersion,
                !.lastCalcTime = a.clock,
                !.updated = TRUE]

\* the valid samples of a readback: the R channel of the pixels with
\* alpha > 0.5, in buffer order
ValidSamples(data) ==
    LET idx == {i \in 1 .. Len(data) : 2 * data[i].a > 1}
        Nth(k) == CHOOSE i \in idx : Cardinality({j \in idx : j < i}) = k - 1
    IN [k \in 1 .. Cardinality(idx) |-> data[Nth(k)].r] \o <<>>

\* samples.sort((a, b) => a - b)
SortSamples(samples) ==
    LET ps == SortPairs([i \in 1 .. Len(samples) |-> <<samples[i], samples[i]>>])
    IN [i \in 1 .. Len(ps) |-> ps[i][2]] \o <<>>

\* the percentile range without the guard against an empty range
StatisticsNoGuard(samples, options) ==
    LET n == Len(samples)
        pLow == Frac(Max2(0, Min2(100, options.clipLow)), 100)
        pHigh == Frac(Max2(0, Min2(100, options.clipHigh)), 100)
        lowIndex == FFloor(FMul(Num(n), pLow))
        highIndex == FFloor(FMul(Num(n), pHigh))
        min0 == IF lowIndex < n THEN samples[lowIndex + 1] ELSE samples[1]
        max0 == IF highIndex < n THEN samples[highIndex + 1] ELSE samples[n]
        range == Num(max0 - min0)
    IN [min |-> FSub(Num(min0), FMul(range, Frac(options.padLow, 100))),
        max |-> FAdd(Num(max0), FMul(range, Frac(options.padHigh, 100)))]

\* calculateStatistics from the sort on: the percentile range of the sorted,
\* non-empty samples
Statistics(samples, options) ==
    LET n == Len(samples)
        pLow == Frac(Max2(0, Min2(100, options.clipLow)), 100)
        pHigh == Frac(Max2(0, Min2(100, options.clipHigh)), 100)
        lowIndex == FFloor(FMul(Num(n), pLow))
        highIndex == FFloor(FMul(Num(n), pHigh))
        min0 == IF lowIndex < n THEN samples[lowIndex + 1] ELSE samples[1]
        max0 == IF highIndex < n THEN samples[highIndex + 1] ELSE samples[n]
        range == Num(max0 - min0)
        min == FSub(Num(min0), FMul(range, Frac(options.padLow, 100)))
        max == FAdd(Num(max0), FMul(range, Frac(options.padHigh, 100)))
    IN [min |-> min,
        max |-> IF ~FLess(min, max) THEN FAdd(min, <<1, 10000>>) ELSE max]

\* calculateStatistics that does not return on an empty sample list:
\* samples[0] is undefined and the range becomes NaN, written 0 / 0
CalculateStatisticsNoReturn(a, data) ==
    LET samples == ValidSamples(data)
    IN IF Len(samples) = 0
       THEN [a EXCEPT !.currentStats = [min |-> <<0, 0>>, max |-> <<0, 0>>]]
       ELSE [a EXCEPT !.currentStats = Statistics(SortSamples(samples), a.options)]

\* calculateStatistics(), data being the content of the mapped buffer
CalculateStatistics(a, data) ==
    LET samples == ValidSamples(data)
    IN IF Len(samples) = 0 THEN a
       ELSE [a EXCEPT !.currentStats = Statistics(SortSamples(samples), a.options)]

\* the then-handler of mapAsync
ReadbackThen(a, data) == [CalculateStatistics(a, data) EXCEPT !.isAnalyzing = FALSE]

\* a catch-handler of mapAsync that leaves the flag set
ReadbackCatchKeepBusy(a) == a

\* the catch-handler of mapAsync
ReadbackCatch(a) == [a EXCEPT !.isAnalyzing = FALSE]

\* { ...this.options, ...options }, the partial options being a set of
\* <<key, value>> pairs
MergeOptions(options, partial) ==
    LET Pick(k) == IF \E e \in partial : e[1] = k
                   THEN (CHOOSE e \in partial : e[1] = k)[2]
                   ELSE options[k]
    IN [clipLow |-> Pick("clipLow"), clipHigh |-> Pick("clipHigh"),
        padLow |-> Pick("padLow"), padHigh |-> Pick("padHigh")]

\* setOptions(options) that invalidates nothing when no value changes
SetOptionsIfChanged(a, partial) ==
    IF MergeOptions(a.options, partial) = a.options THEN a
    ELSE [a EXCEPT !.options = MergeOptions(@, partial),
                   !.lastOptionsSignature = <<>>]

\* setOptions(options)
SetOptions(a, partial) ==
    [a EXCEPT !.options = MergeOptions(@, partial),
              !.lastOptionsSignature = <<>>]

(***************************************************************************)
(* Actions                                                                 *)
(***************************************************************************)
NoPrune == [before |-> <<>>, activeTime |-> 0, limit |-> 0, buffer |-> 0,
            called |-> FALSE]
NoLevelCall == [zoom |-> <<1, 1>>, result |-> 0, called |-> FALSE]

Init ==
    /\ taskQueue = <<>>
    /\ activeTasks = <<>>
    /\ workerStatus = [w \in Workers |-> FALSE]
    /\ inbox = [w \in Workers |-> EmptyBag]
    /\ futs = <<>>
    /\ tiles = <<>>
    /\ objs = <<>>
    /\ textures = <<>>
    /\ levels = <<>>
    /\ globalMin = 0
    /\ globalMax = 255
    /\ hasGlobalStats = FALSE
    /\ version = 0
    /\ selectedBands = 0
    /\ now = 0
    /\ visibleTiles = <<>>
    /\ epoch = [src |-> 0, bands |-> 0]
    /\ pruneCall = NoPrune
    /\ levelCall = NoLevelCall
    /\ viewport = NewViewport
    /\ adra = NewAnalyzer

Bounded(st) ==
    /\ Len(st.futs) <= MaxFutures
    /\ st.epoch.src + st.epoch.bands <= MaxResets
    /\ \A w \in DOMAIN st.inbox :
          CopiesIn(InitBroadcast, st.inbox[w]) <= MaxBroadcast

\* an executor answers one of the messages it holds
WorkerReplyWith(w, msg, data) ==
    /\ Commit(Drain(OnMessage([Cur EXCEPT !.inbox[w] = @ (-) SetToBag({msg})], w, data)))
    /\ UNCHANGED <<now, pruneCall, levelCall, viewport, adra>>

WorkerReply ==
    \E w \in DOMAIN inbox : \E msg \in BagToSet(inbox[w]) : \E data \in Replies(msg) :
        WorkerReplyWith(w, msg, data)

\* an executor fails while handling one of the messages it holds
WorkerErrorWith(w, msg) ==
    /\ Commit(Drain(OnError([Cur EXCEPT !.inbox[w] = @ (-) SetToBag({msg})], w)))
    /\ UNCHANGED <<now, pruneCall, levelCall, viewport, adra>>

WorkerError ==
    \E w \in DOMAIN inbox : \E msg \in BagToSet(inbox[w]) : WorkerErrorWith(w, msg)

\* a frame of the renderer
FrameWith(vp) ==
    LET st == Drain(GetVisibleTiles(Cur, vp, now))
    IN /\ Bounded(st)
       /\ Commit(st)
       /\ UNCHANGED <<now, pruneCall, levelCall, viewport, adra>>

Frame == \E vp \in Viewports : FrameWith(vp)

LoadSource ==
    LET st == Drain(InitSource(Cur))
    IN /\ Bounded(st)
       /\ Commit(st)
       /\ UNCHANGED <<now, pruneCall, levelCall, viewport, adra>>

SelectBands ==
    \E b \in BandChoices :
        LET st == Drain(SetBands(Cur, b))
        IN /\ Bounded(st)
           /\ Commit(st)
           /\ UNCHANGED <<now, pruneCall, levelCall, viewport, adra>>

Tick ==
    /\ now < MaxTime
    /\ now' = now + 1
    /\ UNCHANGED <<taskQueue, activeTasks, workerStatus, inbox, futs, tiles, objs,
                   textures, levels, globalMin, globalMax, hasGlobalStats, version,
                   selectedBands, visibleTiles, epoch, pruneCall, levelCall,
                   viewport, adra>>

Next == WorkerReply \/ WorkerError \/ Frame \/ LoadSource \/ SelectBands \/ Tick

Spec == Init /\ [][Next]_vars

(***************************************************************************)
(* SpecPool: the pool under an arbitrary client                            *)
(***************************************************************************)
MaxSubmits == 3     \* process() calls in one behaviour of SpecPool
MaxPoolWorkers == 2 \* largest pool SpecPool is started with (maxWorkers)

PoolIds == {"t", "u"}
PoolPriorities == {1, 5}
\* the payload of the n-th submission: every call passes a payload of its own
PoolPayload(id, n) == [type |-> "decode", id |-> id, bands |-> n]

Submit(id, priority, payload) ==
    /\ Len(futs) < MaxSubmits
    /\ Commit(Drain(Process(Cur, id, payload, priority, [kind |-> "none", tile |-> 0])))
    /\ UNCHANGED <<now, pruneCall, levelCall, viewport, adra>>

AbortCall(id) ==
    /\ Commit(Drain(Abort(Cur, id)))
    /\ UNCHANGED <<now, pruneCall, levelCall, viewport, adra>>

BroadcastCall ==
    LET st == Broadcast(Cur, InitBroadcast)
    IN /\ Bounded(st)
       /\ Commit(st)
       /\ UNCHANGED <<now, pruneCall, levelCall, viewport, adra>>

PoolSubmit ==
    \E id \in PoolIds : \E priority \in PoolPriorities :
        Submit(id, priority, PoolPayload(id, Len(futs) + 1))

PoolAbort == \E id \in PoolIds : AbortCall(id)

NextPool == PoolSubmit \/ PoolAbort \/ BroadcastCall \/ WorkerReply \/ WorkerError

\* new WorkerPool(workerFactory, maxWorkers) spawns its executors, all free
InitPool ==
    \E n \in 1 .. MaxPoolWorkers :
        /\ taskQueue = <<>>
        /\ activeTasks = <<>>
        /\ workerStatus = [w \in 0 .. (n - 1) |-> FALSE]
        /\ inbox = [w \in 0 .. (n - 1) |-> EmptyBag]
        /\ futs = <<>>
        /\ tiles = <<>>
        /\ objs = <<>>
        /\ textures = <<>>
        /\ levels = <<>>
        /\ globalMin = 0
        /\ globalMax = 255
        /\ hasGlobalStats = FALSE
        /\ version = 0
        /\ selectedBands = 0
        /\ now = 0
        /\ visibleTiles = <<>>
        /\ epoch = [src |-> 0, bands |-> 0]
        /\ pruneCall = NoPrune
        /\ levelCall = NoLevelCall
        /\ viewport = NewViewport
        /\ adra = NewAnalyzer

SpecPool == InitPool /\ [][NextPool]_vars

(***************************************************************************)
(* SpecQueue: the queue of a pool whose executors stay busy, so that       *)
(* submissions wait, are replaced in place and are dispatched in turn      *)
(***************************************************************************)
MaxQueueSubmits == 4  \* process() calls in one behaviour of SpecQueue
QueueWorkers == 1     \* executors of the pool SpecQueue is started with

QueueSubmit ==
    \E id \in PoolIds : \E priority \in PoolPriorities :
        /\ Len(futs) < MaxQueueSubmits
        /\ Commit(Drain(Process(Cur, id, PoolPayload(id, Len(futs) + 1), priority,
                                [kind |-> "none", tile |-> 0])))
        /\ UNCHANGED <<now, pruneCall, levelCall, viewport, adra>>

NextQueue == QueueSubmit \/ PoolAbort \/ WorkerReply \/ WorkerError

InitQueue ==
    /\ taskQueue = <<>>
    /\ activeTasks = <<>>
    /\ workerStatus = [w \in 0 .. (QueueWorkers - 1) |-> FALSE]
    /\ inbox = [w \in 0 .. (QueueWorkers - 1) |-> EmptyBag]
    /\ futs = <<>>
    /\ tiles = <<>>
    /\ objs = <<>>
    /\ textures = <<>>
    /\ levels = <<>>
    /\ globalMin = 0
    /\ globalMax = 255
    /\ hasGlobalStats = FALSE
    /\ version = 0
    /\ selectedBands = 0
    /\ now = 0
    /\ visibleTiles = <<>>
    /\ epoch = [src |-> 0, bands |-> 0]
    /\ pruneCall = NoPrune
    /\ levelCall = NoLevelCall
    /\ viewport = NewViewport
    /\ adra = NewAnalyzer

SpecQueue == InitQueue /\ [][NextQueue]_vars

(***************************************************************************)
(* SpecGrid: frames over a loaded pyramid, with viewports that lie partly  *)
(* or wholly outside the image and viewports that show several tiles       *)
(***************************************************************************)
MaxGridFutures == 4  \* process() calls in one behaviour of SpecGrid, init's included
MaxGridResets == 1   \* setBands calls in one behaviour of SpecBands

\* pyramids a source answers init with: 1x1 tiles, the 2x2 tiles of Levels,
\* and an image whose last column of tiles is cut by the image's edge
GridPyramids ==
    { << [index |-> 0, width |-> 2, height |-> 1, tileWidth |-> 1, tileHeight |-> 1],
         [index |-> 1, width |-> 1, height |-> 1, tileWidth |-> 1, tileHeight |-> 1] >>,
      Levels,
      << [index |-> 0, width |-> 3, height |-> 2, tileWidth |-> 2, tileHeight |-> 2],
         [index |-> 1, width |-> 1, height |-> 1, tileWidth |-> 2, tileHeight |-> 2] >> }

\* a wide viewport over the left of the image, one left of and above the
\* image, one right of it, a zoomed-out one, and one whose center
\* (1 + 2^-15, 0.5) is a little right of the middle of a 2x1 image
GridViewports ==
    { [center |-> <<1, 1>>, unit |-> 1, zoom |-> <<1, 1>>, size |-> <<6, 2>>],
      [center |-> <<0 - 5, 0 - 5>>, unit |-> 1, zoom |-> <<1, 1>>, size |-> <<2, 2>>],
      [center |-> <<9, 1>>, unit |-> 1, zoom |-> <<1, 1>>, size |-> <<2, 2>>],
      [center |-> <<2, 1>>, unit |-> 1, zoom |-> <<1, 2>>, size |-> <<2, 2>>],
      [center |-> <<32769, 16384>>, unit |-> 32768, zoom |-> <<1, 1>>,
       size |-> <<1, 1>>] }

GridFrameWith(vp) ==
    LET st == Drain(GetVisibleTiles(Cur, vp, now))
    IN /\ Len(st.futs) <= MaxGridFutures
       /\ Commit(st)
       /\ UNCHANGED <<now, pruneCall, levelCall, viewport, adra>>

GridFrame == \E vp \in GridViewports : GridFrameWith(vp)

\* the source has BandCount bands (bandMetadata.length); a selection is
\* modelled by one band index, and setBands can be called with any number
BandCount == 3
InvalidBands == {0 - 1, BandCount}

SetBandsWith(b) ==
    /\ epoch.bands < MaxGridResets
    /\ Commit(Drain(SetBands(Cur, b)))
    /\ UNCHANGED <<now, pruneCall, levelCall, viewport, adra>>

SetBandsCall == \E b \in BandChoices \cup InvalidBands : SetBandsWith(b)

NextGrid == GridFrame \/ WorkerReply \/ WorkerError \/ Tick

\* the state after init(source) was answered with one of the pyramids
InitGrid ==
    \E pyramid \in GridPyramids :
        /\ levels = pyramid
        /\ taskQueue = <<>>
        /\ activeTasks = <<>>
        /\ workerStatus = [w \in Workers |-> FALSE]
        /\ inbox = [w \in Workers |-> EmptyBag]
        /\ futs = << [epoch |-> [bands |-> 0, src |-> 1], id |-> "init-task",
                      state |-> "resolved", kind |-> "init", dispatched |-> TRUE,
                      tile |-> 0, resolvedAt |-> [src |-> 1, bands |-> 0],
                      hasData |-> FALSE] >>
        /\ tiles = <<>>
        /\ objs = <<>>
        /\ textures = <<>>
        /\ globalMin = 0
        /\ globalMax = 1
        /\ hasGlobalStats = FALSE
        /\ version = 0
        /\ selectedBands = SuggestedBands
        /\ now = 0
        /\ visibleTiles = <<>>
        /\ epoch = [src |-> 1, bands |-> 0]
        /\ pruneCall = NoPrune
        /\ levelCall = NoLevelCall
        /\ viewport = NewViewport
        /\ adra = NewAnalyzer

SpecGrid == InitGrid /\ [][NextGrid]_vars

\* SpecBands: frames over a loaded pyramid and setBands calls with any index
NextBands == GridFrame \/ SetBandsCall \/ WorkerReply \/ WorkerError

SpecBands == InitGrid /\ [][NextBands]_vars

(***************************************************************************)
(* SpecPrune: prune applied to bounded caches                              *)
(***************************************************************************)
MaxPruneTiles == 3  \* tiles in the cache prune is applied to

PruneLimits == {1, 2}
PruneBuffers == {0, 1}
\* values of lastUsed and of activeTime: one more than the clock values, so
\* that the tiles that are not active can differ in age
PruneTimes == 0 .. (MaxTime + 1)

\* number of loaded tiles among the first i
RECURSIVE LoadedUpTo(_, _)
LoadedUpTo(ld, i) ==
    IF i = 0 THEN 0 ELSE LoadedUpTo(ld, i - 1) + (IF ld[i] THEN 1 ELSE 0)

InitPrune ==
    \E n \in 0 .. MaxPruneTiles :
      \E lu \in [1 .. n -> PruneTimes] : \E ld \in [1 .. n -> BOOLEAN] :
        /\ objs = [i \in 1 .. n |->
                     [id |-> TileKey(0, i - 1, 0), x |-> i - 1, y |-> 0, z |-> 0,
                      loaded |-> ld[i], worldX |-> 2 * (i - 1), worldY |-> 0,
                      width |-> 2, height |-> 2,
                      texture |-> IF ld[i] THEN LoadedUpTo(ld, i) ELSE 0,
                      lastUsed |-> lu[i],
                      min |-> 0, max |-> IF ld[i] THEN 1 ELSE 0]]
        /\ tiles = [i \in 1 .. n |-> [key |-> TileKey(0, i - 1, 0), obj |-> i]]
        /\ textures = [i \in 1 .. LoadedUpTo(ld, n) |-> 0]
        /\ taskQueue = <<>>
        /\ activeTasks = <<>>
        /\ workerStatus = [w \in Workers |-> FALSE]
        /\ inbox = [w \in Workers |-> EmptyBag]
        /\ futs = <<>>
        /\ levels = Levels
        /\ globalMin = 0
        /\ globalMax = 1
        /\ hasGlobalStats = \E i \in 1 .. n : ld[i]
        /\ version = LoadedUpTo(ld, n)
        /\ selectedBands = SuggestedBands
        /\ now = MaxTime + 1
        /\ visibleTiles = <<>>
        /\ epoch = [src |-> 1, bands |-> 0]
        /\ pruneCall = NoPrune
        /\ levelCall = NoLevelCall
        /\ viewport = NewViewport
        /\ adra = NewAnalyzer

PruneStep ==
    \E t \in PruneTimes : \E limit \in PruneLimits : \E buffer \in PruneBuffers :
        /\ ~pruneCall.called
        /\ Commit(Drain(Prune(Cur, t, limit, buffer)))
        /\ pruneCall' = [before |-> tiles, activeTime |-> t, limit |-> limit,
                         buffer |-> buffer, called |-> TRUE]
        /\ UNCHANGED <<now, levelCall, viewport, adra>>

NextPrune == PruneStep

SpecPrune == InitPrune /\ [][NextPrune]_vars

(***************************************************************************)
(* SpecLevel: getBestLevel applied to bounded pyramids                     *)
(***************************************************************************)
MaxLevels == 4      \* levels of the pyramid getBestLevel is applied to

\* widths of the levels and zooms (numerator, denominator); the quotients
\* imageWidth / width and 1 / zoom of these are exact in floating point or
\* apart from each other, so that <= decides as on the fractions
LevelWidths == {1, 2, 4}
Zooms == {<<1, 1>>, <<1, 2>>, <<1, 4>>, <<2, 1>>, <<3, 10>>}

\* the state after init answered with a pyramid of n levels, in file order
InitLevel ==
    \E n \in 0 .. MaxLevels : \E ws \in [1 .. n -> LevelWidths] :
        /\ levels = [i \in 1 .. n |->
                       [index |-> i - 1, width |-> ws[i], height |-> ws[i],
                        tileWidth |-> 2, tileHeight |-> 2]]
        /\ taskQueue = <<>>
        /\ activeTasks = <<>>
        /\ workerStatus = [w \in Workers |-> FALSE]
        /\ inbox = [w \in Workers |-> EmptyBag]
        /\ futs = <<>>
        /\ tiles = <<>>
        /\ objs = <<>>
        /\ textures = <<>>
        /\ globalMin = 0
        /\ globalMax = 1
        /\ hasGlobalStats = FALSE
        /\ version = 0
        /\ selectedBands = SuggestedBands
        /\ now = 0
        /\ visibleTiles = <<>>
        /\ epoch = [src |-> 1, bands |-> 0]
        /\ pruneCall = NoPrune
        /\ levelCall = NoLevelCall
        /\ viewport = NewViewport
        /\ adra = NewAnalyzer

\* getBestLevel(viewport): only viewport.zoom is read
BestLevelStep ==
    \E zoom \in Zooms :
        /\ ~levelCall.called
        /\ levelCall' = [zoom |-> zoom, called |-> TRUE,
                         result |-> GetBestLevel(levels,
                                      [center |-> <<0, 0>>, zoom |-> zoom,
                                       size |-> <<2, 2>>])]
        /\ UNCHANGED <<taskQueue, activeTasks, workerStatus, inbox, futs, tiles,
                       objs, textures, levels, globalMin, globalMax,
                       hasGlobalStats, version, selectedBands, now,
                       visibleTiles, epoch, pruneCall, viewport, adra>>

NextLevel == BestLevelStep

SpecLevel == InitLevel /\ [][NextLevel]_vars

(***************************************************************************)
(* SpecViewport: the mutators of Viewport called in any order              *)
(***************************************************************************)
MaxViewportCalls == 3   \* mutator calls in one behaviour

\* arguments of the calls: powers of two for zoom and factor (and a negative
\* factor), so that every quotient is exact, and points of the canvas
ZoomArgs == {<<1, 16384>>, <<1, 2>>, <<2, 1>>}
ZoomFactors == {<<1, 2>>, <<2, 1>>, <<0 - 1, 1>>}
ScreenPoints == {<<Num(0), Num(0)>>, <<Num(400), Num(300)>>, <<Num(800), Num(600)>>}
CenterArgs == {<<Num(100), Num(50)>>}
MoveArgs == {<<Num(10), Num(0 - 10)>>}
SizeArgs == {<<Num(1024), Num(512)>>}

\* a call of a mutator that turns the viewport into v
ViewportCall(v) ==
    /\ viewport.calls < MaxViewportCalls
    /\ viewport' = [v EXCEPT !.calls = @ + 1]
    /\ UNCHANGED <<taskQueue, activeTasks, workerStatus, inbox, futs, tiles,
                   objs, textures, levels, globalMin, globalMax,
                   hasGlobalStats, version, selectedBands, now,
                   visibleTiles, epoch, pruneCall, levelCall, adra>>

SetZoomWith(z) == ViewportCall(SetZoom(viewport, z))
SetZoomCall == \E z \in ZoomArgs : SetZoomWith(z)

ZoomAtWith(factor, p) == ViewportCall(ZoomAt(viewport, factor, p[1], p[2]))
ZoomAtCall == \E factor \in ZoomFactors : \E p \in ScreenPoints : ZoomAtWith(factor, p)

SetCenterCall == \E c \in CenterArgs : ViewportCall(SetCenter(viewport, c[1], c[2]))
MoveCall == \E d \in MoveArgs : ViewportCall(Move(viewport, d[1], d[2]))
ResizeCall == \E s \in SizeArgs : ViewportCall(Resize(viewport, s[1], s[2]))

NextViewport == SetZoomCall \/ ZoomAtCall \/ SetCenterCall \/ MoveCall \/ ResizeCall

SpecViewport == Init /\ [][NextViewport]_vars

(***************************************************************************)
(* SpecADRA: the ADRAAnalyzer driven by update and setOptions calls, the   *)
(* clock, and the resolution or rejection of its readback                  *)
(***************************************************************************)
MaxAnalyses == 2        \* analyses started in one behaviour
MaxSetOptions == 1      \* setOptions calls in one behaviour
MaxClock == 200         \* largest value of performance.now(), in ms
MaxPixels == 2          \* pixels of the readback buffer (128 * 128 in the source)

\* performance.now() advances by one of these between two calls
ClockSteps == {50}

\* viewports update is called with: the first two have the signature
\* 0.00,0.00,1.00, the third has -0.00,0.00,1.00
AdraViewports ==
    { [center |-> <<Num(0), Num(0)>>, zoom |-> Num(1)],
      [center |-> <<Num(0), Num(0)>>, zoom |-> <<1001, 1000>>],
      [center |-> <<<<0 - 1, 1000>>, Num(0)>>, zoom |-> Num(1)] }

\* values of tileManager.version update is called with
AdraVersions == {0, 1}

\* partial options setOptions is called with; the empty one changes nothing
PartialOptions ==
    { {}, {<<"clipLow", 50>>, <<"clipHigh", 25>>},
      {<<"clipLow", 150>>, <<"clipHigh", 100>>} }

\* contents of the mapped buffer: a pixel no tile was drawn on keeps the
\* clear value (r = 0, a = 0), a drawn pixel has a = 1 and the intensity in r
SampleValues == {0, 10}
Pixels == {[r |-> 0, a |-> 0]} \cup {[r |-> v, a |-> 1] : v \in SampleValues}
Readbacks == UNION {[1 .. n -> Pixels] : n \in 0 .. MaxPixels}

AdraUnchanged ==
    UNCHANGED <<taskQueue, activeTasks, workerStatus, inbox, futs, tiles,
                objs, textures, levels, globalMin, globalMax,
                hasGlobalStats, version, selectedBands, now,
                visibleTiles, epoch, pruneCall, levelCall, viewport>>

\* the renderer calls update
UpdateWith(vp, tileManagerVersion) ==
    LET a == Update(adra, vp, tileManagerVersion)
        changed ==
            {c \in {"viewport"} : ViewportSignature(vp) # adra.lastViewportSignature}
            \cup {c \in {"options"} :
                     OptionsSignature(adra.options) # adra.lastOptionsSignature}
            \cup {c \in {"version"} : tileManagerVersion # adra.lastUpdateVersion}
    IN /\ a.analyses <= MaxAnalyses
       /\ adra' = IF a.analyses > adra.analyses
                  THEN [a EXCEPT !.changed = changed, !.optionsPending = FALSE,
                                 !.started = [vpSig |-> ViewportSignature(vp),
                                              options |-> adra.options,
                                              version |-> tileManagerVersion,
                                              time |-> adra.clock]]
                  ELSE a
       /\ AdraUnchanged

UpdateCall == \E vp \in AdraViewports : \E v \in AdraVersions : UpdateWith(vp, v)

SetOptionsWith(partial) ==
    /\ adra.optionCalls < MaxSetOptions
    /\ adra' = [SetOptions(adra, partial) EXCEPT !.optionCalls = @ + 1,
                                                 !.optionsPending = TRUE]
    /\ AdraUnchanged

SetOptionsCall == \E partial \in PartialOptions : SetOptionsWith(partial)

\* mapAsync resolves: the buffer is mapped and holds data
ReadbackResolveWith(data) ==
    /\ adra.mapPending
    /\ adra' = [ReadbackThen(adra, data) EXCEPT
                   !.mapPending = FALSE,
                   !.done = [outcome |-> IF Len(ValidSamples(data)) = 0
                                         THEN "empty" ELSE "stats",
                             samples |-> SortSamples(ValidSamples(data)),
                             options |-> adra.options]]
    /\ AdraUnchanged

ReadbackResolve == \E data \in Readbacks : ReadbackResolveWith(data)

\* mapAsync rejects
ReadbackReject ==
    /\ adra.mapPending
    /\ adra' = [ReadbackCatch(adra) EXCEPT
                   !.mapPending = FALSE,
                   !.done = [outcome |-> "failed", samples |-> <<>>,
                             options |-> adra.options]]
    /\ AdraUnchanged

\* time passes
AdraTick ==
    \E s \in ClockSteps :
        /\ adra.clock + s <= MaxClock
        /\ adra' = [adra EXCEPT !.clock = @ + s]
        /\ AdraUnchanged

NextADRA ==
    UpdateCall \/ SetOptionsCall \/ ReadbackResolve \/ ReadbackReject \/ AdraTick

SpecADRA == Init /\ [][NextADRA]_vars

\* the promise of mapAsync is settled by the browser: it resolves once the
\* copy is done and rejects when the buffer or the device is lost
ReadbackSettles == ReadbackResolve \/ ReadbackReject

SpecADRALive == Init /\ [][NextADRA]_vars /\ WF_vars(ReadbackSettles)

(***************************************************************************)
(* Properties                                                              *)
(***************************************************************************)
Futures == 1 .. Len(futs)

\* the promises whose task the pool holds in the queue / in activeTasks
QueuedFuts == {taskQueue[i].fut : i \in 1 .. Len(taskQueue)}
ActiveFuts == {activeTasks[i].task.fut : i \in 1 .. Len(activeTasks)}

\* the task messages (not broadcasts) an executor holds unanswered
TaskMessages(w) ==
    BagCardinality(inbox[w]) - CopiesIn(InitBroadcast, inbox[w])

\* the state of the TileManager a decode completion can touch
tmState == <<tiles, objs, textures, globalMin, globalMax, hasGlobalStats, version>>

\* C1: at most one task per id among the queued tasks and the tasks
\* dispatched to executors taken together.
C1_OneTaskPerId ==
    /\ \A i, j \in 1 .. Len(taskQueue) :
          taskQueue[i].id = taskQueue[j].id => i = j
    /\ \A i, j \in 1 .. Len(activeTasks) :
          activeTasks[i].task.id = activeTasks[j].task.id => i = j
    /\ \A i \in 1 .. Len(taskQueue) : \A j \in 1 .. Len(activeTasks) :
          taskQueue[i].id # activeTasks[j].task.id

\* C2: abort(id) of a dispatched task rejects the future of that task at
\* once and leaves the executor alone; the reply that arrives later for a
\* task whose future was rejected resolves no future and frees the executor
\* of that task.
C2_AbortInFlight ==
    [][ /\ \A id \in PoolIds :
              AbortCall(id) =>
                 /\ \A i \in 1 .. Len(activeTasks) :
                       activeTasks[i].task.id = id =>
                          futs'[activeTasks[i].task.fut].state = "rejected"
                 /\ inbox' = inbox
        /\ \A i \in 1 .. Len(activeTasks) :
              LET task == activeTasks[i].task
                  w == activeTasks[i].w
              IN (/\ futs[task.fut].state = "rejected"
                  /\ inbox'[w] = inbox[w] (-) SetToBag({task.payload})
                  /\ inbox'[w] # inbox[w])
                 => /\ \A f \in Futures :
                          futs'[f].state = "resolved" => futs[f].state = "resolved"
                    /\ task.fut \notin {activeTasks'[j].task.fut :
                                           j \in 1 .. Len(activeTasks')}
      ]_vars

\* C3: setBands leaves the cache empty and GlobalStats uninitialized, and
\* the completion of a decode task submitted before a setBands call changes
\* no Tile, no GlobalStats and not the cache version.
C3_ResetCompleteness ==
    [][ /\ SelectBands => (tiles' = <<>> /\ ~hasGlobalStats')
        /\ \A f \in Futures :
              (/\ futs[f].kind = "tile"
               /\ futs[f].epoch.bands < epoch.bands
               /\ futs[f].state = "pending"
               /\ futs'[f].state = "resolved")
              => UNCHANGED tmState
      ]_vars

\* C4: the completion of a decode task whose tile key is not in the cache
\* adds no tile, attaches no resource to a tile object and leaves GlobalStats
\* and the cache version unchanged.
C4_IgnoreResponseForAbsentKey ==
    [][ \A f \in Futures :
           (/\ futs[f].kind = "tile"
            /\ TileGet(tiles, futs[f].id) = 0
            /\ futs[f].state = "pending"
            /\ futs'[f].state = "resolved")
           => UNCHANGED tmState
      ]_vars

\* C5: an executor never holds more than one unanswered task message: it is
\* not handed a task while a task dispatched to it has not replied or errored.
C5_OneTaskPerExecutor == \A w \in DOMAIN inbox : TaskMessages(w) <= 1

\* C6: no future stays unsettled forever.  resolve and reject of a future
\* are reachable only through its task in the queue or in activeTasks, so a
\* pending future is held by one of them, and a future is settled once only
\* (a resolved future is never rejected later, nor the reverse).
C6_NoFutureLost ==
    \A f \in Futures :
        futs[f].state = "pending" => f \in QueuedFuts \cup ActiveFuts

\* the entries of the cache before the last prune call, and what became of them
Before == pruneCall.before
BeforeIdx == 1 .. Len(Before)
LastUsedOf(i) == objs[Before[i].obj].lastUsed
IsActive(i) == LastUsedOf(i) = pruneCall.activeTime
Retained(i) == \E j \in 1 .. Len(tiles) : tiles[j] = Before[i]

\* C7: prune(activeTime) removes no tile whose lastUsed equals activeTime,
\* whatever the cache holds and whatever size it is left with.
C7_ActiveNeverRemoved ==
    pruneCall.called => \A i \in BeforeIdx : IsActive(i) => Retained(i)

C7_Witness ==
    /\ pruneCall.called
    /\ \E i \in BeforeIdx : IsActive(i)
    /\ \E i \in BeforeIdx : ~Retained(i)
    /\ Len(tiles) > pruneCall.limit

\* the cache of the example: 510 tiles, the first 499 with lastUsed 1 .. 499
\* and the 11 most recent with lastUsed = activeTime = 1000
ExampleCache ==
    [queue |-> <<>>, active |-> <<>>, status |-> [w \in Workers |-> FALSE],
     inbox |-> [w \in Workers |-> EmptyBag], futs |-> <<>>,
     tiles |-> [i \in 1 .. 510 |-> [key |-> ToString(i), obj |-> i]] \o <<>>,
     objs |-> [i \in 1 .. 510 |->
                 [id |-> ToString(i), loaded |-> FALSE, texture |-> 0,
                  lastUsed |-> IF i > 510 - 11 THEN 1000 ELSE i]]
             \o <<>>,
     textures |-> <<>>, micro |-> <<>>]

ExamplePruned == Prune(ExampleCache, 1000, 500, 50).tiles

\* C8: prune is a no-op on a cache of at most limit tiles; otherwise it
\* removes min(toRemove, number of non-active tiles) tiles with
\* toRemove = size - (limit - buffer), all of them non-active and each at
\* least as old as every retained non-active tile, and keeps the others in
\* place.  On the example cache with limit 500 and buffer 50 exactly the 60
\* oldest tiles go and 450 remain.
C8_PruneResult ==
    /\ pruneCall.called =>
          LET n == Len(Before)
              toRemove == n - (pruneCall.limit - pruneCall.buffer)
              nonActive == {i \in BeforeIdx : ~IsActive(i)}
              removed == {i \in BeforeIdx : ~Retained(i)}
          IN IF n <= pruneCall.limit
             THEN tiles = Before
             ELSE /\ tiles = SelectSeq(Before,
                                LAMBDA e : \E j \in 1 .. Len(tiles) : tiles[j] = e)
                  /\ removed \subseteq nonActive
                  /\ Cardinality(removed) = Min2(toRemove, Cardinality(nonActive))
                  /\ \A r \in removed : \A k \in nonActive \ removed :
                        LastUsedOf(r) <= LastUsedOf(k)
    /\ Len(ExamplePruned) = 450
    /\ \A j \in 1 .. 450 : ExamplePruned[j].obj = j + 60

C8_Witness ==
    /\ pruneCall.called
    /\ Len(Before) > pruneCall.limit
    /\ \E k, r \in BeforeIdx :
          /\ k < r
          /\ Retained(k) /\ ~IsActive(k)
          /\ ~Retained(r)
          /\ LastUsedOf(r) < LastUsedOf(k)
    /\ \E i \in BeforeIdx : IsActive(i)

\* C9: process with an id that is queued replaces the entry in place: the
\* pool then holds one task for the new future with the priority and the
\* payload just passed (queued, or dispatched by the call's processNext),
\* the replaced entry is gone, no entry is added, and the queue never holds
\* two entries with one id.
C9_DedupQueued ==
    [][ /\ \A id \in PoolIds : \A priority \in PoolPriorities :
              LET f == Len(futs) + 1
                  new == [fut |-> f, id |-> id, priority |-> priority,
                          payload |-> PoolPayload(id, f)]
                  old == FindQueued(taskQueue, id)
                  inQueue == {i \in 1 .. Len(taskQueue') : taskQueue'[i].id = id}
                  sent == {i \in 1 .. Len(activeTasks') : activeTasks'[i].task = new}
              IN (Submit(id, priority, PoolPayload(id, f)) /\ old # 0)
                 => /\ \A i \in inQueue : taskQueue'[i] = new
                    /\ Cardinality(inQueue) + Cardinality(sent) = 1
                    /\ \A i \in 1 .. Len(taskQueue') :
                          taskQueue'[i].fut # taskQueue[old].fut
                    /\ Len(taskQueue') + Cardinality(sent) = Len(taskQueue)
        /\ \A i, j \in 1 .. Len(taskQueue') :
              taskQueue'[i].id = taskQueue'[j].id => i = j
      ]_vars

C9_Witness ==
    \E i \in 1 .. Len(taskQueue) : \E g \in Futures :
        /\ g < taskQueue[i].fut
        /\ futs[g].id = taskQueue[i].id
        /\ ~futs[g].dispatched
        /\ futs[g].state = "pending"
        /\ taskQueue[i].priority = 5
        /\ taskQueue[i].payload = PoolPayload(taskQueue[i].id, taskQueue[i].fut)

\* C10: abort(id) of a queued task takes it out of the queue and rejects its
\* future in the same call, and a task rejected before it was dispatched is
\* not dispatched in any later state.
C10_AbortQueued ==
    [][ /\ \A id \in PoolIds :
              LET i == FindQueued(taskQueue, id)
              IN (AbortCall(id) /\ i # 0)
                 => /\ futs'[taskQueue[i].fut].state = "rejected"
                    /\ \A j \in 1 .. Len(taskQueue') :
                          taskQueue'[j].fut # taskQueue[i].fut
                    /\ Len(taskQueue') = Len(taskQueue) - 1
        /\ \A f \in Futures :
              (futs[f].state = "rejected" /\ ~futs[f].dispatched)
              => (/\ ~futs'[f].dispatched
                  /\ f \notin {taskQueue'[j].fut : j \in 1 .. Len(taskQueue')}
                  /\ f \notin {activeTasks'[j].task.fut : j \in 1 .. Len(activeTasks')})
      ]_vars

C10_Witness ==
    \E f \in Futures :
        /\ futs[f].state = "rejected"
        /\ ~futs[f].dispatched
        /\ \E g \in Futures : g > f /\ futs[g].dispatched

\* C11: every tile but the background in the list getVisibleTiles returns
\* is, when the call returns (after its prune pass, before any promise
\* reaction runs), in the cache, loaded, and holds a texture that was not
\* destroyed.
C11_VisibleTilesAlive ==
    [][ \A vp \in Viewports :
           FrameWith(vp) =>
              LET st == GetVisibleTiles(Cur, vp, now)
              IN \A i \in 2 .. Len(st.visible) :
                    LET o == st.visible[i]
                    IN /\ TileGet(st.tiles, st.objs[o].id) = o
                       /\ st.objs[o].loaded
                       /\ st.objs[o].texture # 0
                       /\ st.textures[st.objs[o].texture] = 0
      ]_vars

\* a tile is handed out while a tile that was used before it has been
\* destroyed
C11_Witness ==
    /\ Len(visibleTiles) >= 2
    /\ TileGet(tiles, objs[visibleTiles[2]].id) = visibleTiles[2]
    /\ \E p \in 1 .. Len(objs) :
          /\ objs[p].texture # 0
          /\ textures[objs[p].texture] = 1
          /\ objs[p].lastUsed < objs[visibleTiles[2]].lastUsed

\* C12: a texture created for a tile is destroyed once, never twice, and a
\* texture that is not destroyed is the texture of a tile of the cache: none
\* stays undestroyed after its tile left the cache or got another texture.
C12_ResourceOwnership ==
    \A t \in 1 .. Len(textures) :
        /\ textures[t] <= 1
        /\ textures[t] = 0 =>
              \E i \in 1 .. Len(tiles) : objs[tiles[i].obj].texture = t

\* C13: the cache version never decreases.
C13_VersionMonotonic == [][version' >= version]_vars

\* a reply that hands pixel data to the then-handler of a tile request: it
\* answers the task of the executor and the future of that task is pending
DataArrival(w, data) ==
    LET task == ActiveGet(activeTasks, w)
    IN /\ task.fut # 0
       /\ data.id = task.id
       /\ futs[task.fut].state = "pending"
       /\ futs[task.fut].kind = "tile"
       /\ data.hasData

\* C14: the version goes up by exactly 1 with a successful tile-data
\* arrival and with a setBands call, and stays as it is in getVisibleTiles
\* (with its aborts and its prune), on a failed decode response, on a
\* response whose future was rejected before, and on an executor error.
\* (init is the subject of C13.)
C14_VersionSteps ==
    [][ /\ SelectBands => version' = version + 1
        /\ \A vp \in Viewports : FrameWith(vp) => version' = version
        /\ \A w \in DOMAIN inbox : \A msg \in BagToSet(inbox[w]) :
              /\ \A data \in Replies(msg) :
                    WorkerReplyWith(w, msg, data) =>
                       version' = version + (IF DataArrival(w, data) THEN 1 ELSE 0)
              /\ WorkerErrorWith(w, msg) => version' = version
      ]_vars

\* a tile arrived after a band change: the version counts both
C14_Witness ==
    /\ version = 2
    /\ epoch.bands = 1
    /\ \E i \in 1 .. Len(tiles) : objs[tiles[i].obj].loaded
    /\ \E f \in Futures : futs[f].kind = "tile" /\ futs[f].state = "rejected"

\* C15: an error event of executor w rejects the future of the task
\* activeTasks holds for w and changes no other future; the tasks, the
\* messages and the status of the other executors stay; w is free after it,
\* or holds the task that was first in the queue.
C15_CrashIsolation ==
    [][ \A w \in DOMAIN inbox : \A msg \in BagToSet(inbox[w]) :
           WorkerErrorWith(w, msg) =>
              LET task == ActiveGet(activeTasks, w)
              IN /\ \A f \in Futures :
                       f # task.fut => futs'[f].state = futs[f].state
                 /\ \A v \in DOMAIN inbox \ {w} :
                       /\ ActiveGet(activeTasks', v) = ActiveGet(activeTasks, v)
                       /\ inbox'[v] = inbox[v]
                       /\ workerStatus'[v] = workerStatus[v]
                 /\ task.fut = 0 => ~workerStatus'[w] /\ taskQueue' = taskQueue
                 /\ task.fut # 0 =>
                       /\ futs[task.fut].state = "pending"
                             => futs'[task.fut].state = "rejected"
                       /\ IF taskQueue = <<>>
                          THEN /\ ~workerStatus'[w]
                               /\ ActiveGet(activeTasks', w) = NoTask
                          ELSE /\ workerStatus'[w]
                               /\ ActiveGet(activeTasks', w) = Head(taskQueue)
                               /\ taskQueue' = Tail(taskQueue)
                               /\ inbox'[w] = (inbox[w] (-) SetToBag({msg}))
                                                (+) SetToBag({Head(taskQueue).payload})
      ]_vars

\* two executors: the task of one was rejected, the task of the other is
\* pending and dispatched, and the third task was taken from the queue
C15_Witness ==
    /\ Len(futs) = 3
    /\ DOMAIN inbox = {0, 1}
    /\ \E f, g \in {1, 2} :
          /\ f # g
          /\ futs[f].state = "rejected" /\ futs[f].dispatched
          /\ futs[g].state = "pending" /\ g \in ActiveFuts
    /\ futs[3].dispatched /\ 3 \in ActiveFuts
    /\ taskQueue = <<>>

\* the futures of the decode requests made for Tile object o
TileFuts(fs, o) == {f \in 1 .. Len(fs) : fs[f].kind = "tile" /\ fs[f].tile = o}

\* a decode response without pixel data was delivered for the tile and no
\* request for it is outstanding
DecodeFailed(o) ==
    /\ ~objs[o].loaded
    /\ \E f \in TileFuts(futs, o) : futs[f].state = "resolved"
    /\ \A f \in TileFuts(futs, o) : futs[f].state # "pending"

\* C16: a tile whose decode response reported failure is not retried: as
\* long as it is in the cache, a getVisibleTiles pass submits no decode
\* request for it.
C16_NoRetryAfterFailure ==
    [][ \A vp \in Viewports :
           FrameWith(vp) =>
              \A i \in 1 .. Len(tiles) :
                 DecodeFailed(tiles[i].obj) =>
                    \A g \in (Len(futs) + 1) .. Len(futs') :
                       futs'[g].tile # tiles[i].obj
      ]_vars

\* requiredTiles: the keys a pass of getVisibleTiles visits
Required(vp) ==
    LET coords == VisitOrder(levels, SortedLevels(levels), vp, 1)
    IN {TileKey(coords[i][1], coords[i][2], coords[i][3]) : i \in 1 .. Len(coords)}

\* C17: after a getVisibleTiles pass and the reactions to its aborts, no
\* tile of the cache is still pending (not loaded, a request outstanding)
\* unless the pass marked its key required: the others were aborted and
\* removed, so that a later pass starts them afresh.
C17_CancelLeftView ==
    [][ \A vp \in Viewports :
           FrameWith(vp) =>
              \A i \in 1 .. Len(tiles') :
                 (/\ ~objs'[tiles'[i].obj].loaded
                  /\ \E f \in TileFuts(futs', tiles'[i].obj) :
                        futs'[f].state = "pending")
                 => tiles'[i].key \in Required(vp)
      ]_vars

\* every tile of the target level the viewport covers is cached and loaded
FullyLoaded(vp) ==
    LET target == GetBestLevel(levels, vp)
        coords == VisitOrder(levels, SortedLevels(levels), vp, 1)
    IN \A i \in 1 .. Len(coords) :
          coords[i][1] = target =>
             LET o == TileGet(tiles, TileKey(coords[i][1], coords[i][2], coords[i][3]))
             IN o # 0 /\ objs[o].loaded

\* C18: getVisibleTiles called with a viewport whose tiles are all loaded
\* submits no request and leaves the version, and a second call with the
\* same viewport, at the same or a later time, returns the same list in the
\* same order, again without a request or a change of the version.
C18_Idempotent ==
    [][ \A vp \in Viewports :
           (FrameWith(vp) /\ FullyLoaded(vp)) =>
              /\ version' = version
              /\ Len(futs') = Len(futs)
              /\ \A t2 \in {now', now' + 1} :
                    LET s2 == Drain(GetVisibleTiles(Cur', vp, t2))
                    IN /\ s2.visible = visibleTiles'
                       /\ s2.version = version'
                       /\ Len(s2.futs) = Len(futs')
      ]_vars

\* a pass over a fully loaded view returned tiles of two levels
C18_Witness ==
    /\ Len(visibleTiles) >= 3
    /\ \E vp \in Viewports :
          /\ FullyLoaded(vp)
          /\ GetVisibleTiles(Cur, vp, now).visible = visibleTiles

\* levelRes <= targetRes for level i (from 0) of lv at the zoom
LevelOk(lv, zoom, i) == lv[1].width * zoom[1] <= lv[i + 1].width * zoom[2]

\* 4096 x 4096 pixels with three overviews
ExampleLevels ==
    [i \in 1 .. 4 |-> [index |-> i - 1, width |-> <<4096, 2048, 1024, 512>>[i],
                       height |-> <<4096, 2048, 1024, 512>>[i],
                       tileWidth |-> 256, tileHeight |-> 256]]

ExampleViewport(zoom) == [center |-> <<0, 0>>, zoom |-> zoom, size |-> <<2, 2>>]

\* C19: getBestLevel returns the largest i such that levelRes <= targetRes
\* holds for every level 0 .. i, 0 when it fails for level 0 and 0 without
\* levels; on the example pyramid 0 at zoom 1 and 1 at zoom 0.3.
C19_BestLevel ==
    /\ levelCall.called =>
          LET good == {i \in 0 .. (Len(levels) - 1) :
                          \A j \in 0 .. i : LevelOk(levels, levelCall.zoom, j)}
          IN levelCall.result =
                IF good = {} THEN 0
                ELSE CHOOSE i \in good : \A k \in good : k <= i
    /\ GetBestLevel(ExampleLevels, ExampleViewport(<<1, 1>>)) = 0
    /\ GetBestLevel(ExampleLevels, ExampleViewport(<<3, 10>>)) = 1

\* the walk stopped at a level that is too coarse although a later one fits
C19_Witness ==
    /\ levelCall.called
    /\ levelCall.result >= 1
    /\ \E j \in (levelCall.result + 2) .. (Len(levels) - 1) :
          LevelOk(levels, levelCall.zoom, j)

\* C20: after the background tile, the list getVisibleTiles returned is in
\* non-increasing level index: coarser tiles come before finer ones.
C20_PaintersOrder ==
    \A i, j \in 2 .. Len(visibleTiles) :
        i < j => objs[visibleTiles[i]].z >= objs[visibleTiles[j]].z

C20_Witness ==
    \E i, j \in 2 .. Len(visibleTiles) :
        objs[visibleTiles[i]].z > objs[visibleTiles[j]].z

C30_FullResetOnInit ==
    [][ /\ LoadSource =>
              /\ tiles' = <<>>
              /\ ~hasGlobalStats'
              /\ \A i \in 1 .. Len(tiles) :
                    objs[tiles[i].obj].texture # 0 =>
                       textures'[objs[tiles[i].obj].texture] >= 1
              /\ \A f \in Futures :
                    futs[f].kind = "tile" => futs'[f].state # "pending"
        /\ \A f \in Futures :
              (/\ futs[f].kind = "tile"
               /\ futs[f].epoch.src < epoch.src
               /\ futs[f].state = "pending"
               /\ futs'[f].state = "resolved")
              => UNCHANGED tmState
      ]_vars

\* C21: the zoom of the viewport is never below minZoom.
C21_ZoomAtLeastMin == ~FLess(viewport.zoom, viewport.minZoom)

\* the world point shown at the screen point p: Screen = (World - Center) *
\* Zoom + Size / 2, solved for World
ScreenToWorld(v, p) ==
    <<FAdd(FDiv(FSub(p[1], FDiv(v.size[1], Num(2))), v.zoom), v.center[1]),
      FAdd(FDiv(FSub(p[2], FDiv(v.size[2], Num(2))), v.zoom), v.center[2])>>

\* C22: zoomAt(factor, x, y) with factor > 0 multiplies the zoom by factor
\* and the world point shown at (x, y) is the same before and after the call.
C22_ZoomAtAnchor ==
    [][ \A factor \in ZoomFactors : \A p \in ScreenPoints :
           (ZoomAtWith(factor, p) /\ FLess(Num(0), factor)) =>
              /\ ScreenToWorld(viewport', p) = ScreenToWorld(viewport, p)
              /\ viewport'.zoom = FMul(viewport.zoom, factor) ]_vars

\* zoomAt was called at a corner of the canvas and moved the center
C22_Witness ==
    /\ viewport.calls = 1
    /\ viewport.zoom = <<2, 1>>
    /\ viewport.center = <<Num(0 - 200), Num(0 - 150)>>

\* the conditions under which update does nothing: nothing differs from the
\* values stored by the last analysis, or the throttle interval has not
\* passed, or an analysis is running
Gated(a, vp, tileManagerVersion) ==
    \/ /\ ViewportSignature(vp) = a.lastViewportSignature
       /\ OptionsSignature(a.options) = a.lastOptionsSignature
       /\ tileManagerVersion = a.lastUpdateVersion
    \/ a.clock - a.lastCalcTime < 100
    \/ a.isAnalyzing

\* C23: an update call that is not needed, throttled or blocked by a running
\* analysis returns "not updated", starts no analysis and leaves the stored
\* signatures, the time of the last update, the busy flag and the current
\* range as they were.
C23_UpdateGating ==
    [][ \A vp \in AdraViewports : \A v \in AdraVersions :
           (Gated(adra, vp, v) /\ UpdateWith(vp, v)) =>
              /\ ~adra'.updated
              /\ adra'.analyses = adra.analyses
              /\ adra'.mapPending = adra.mapPending
              /\ adra'.lastViewportSignature = adra.lastViewportSignature
              /\ adra'.lastOptionsSignature = adra.lastOptionsSignature
              /\ adra'.lastUpdateVersion = adra.lastUpdateVersion
              /\ adra'.lastCalcTime = adra.lastCalcTime
              /\ adra'.isAnalyzing = adra.isAnalyzing
              /\ adra'.currentStats = adra.currentStats ]_vars

\* update returned "not updated" while an analysis was running
C23_Witness ==
    /\ adra.analyses >= 1
    /\ adra.isAnalyzing
    /\ ~adra.updated

PercentileRange(s, o) ==
    LET n == Len(s)
        lowIndex == (n * o.clipLow) \div 100
        highIndex == (n * o.clipHigh) \div 100
        min0 == IF lowIndex \in 0 .. (n - 1) THEN s[lowIndex + 1] ELSE s[1]
        max0 == IF highIndex \in 0 .. (n - 1) THEN s[highIndex + 1] ELSE s[n]
    IN [min |-> Frac(100 * min0 - (max0 - min0) * o.padLow, 100),
        max |-> Frac(100 * max0 + (max0 - min0) * o.padHigh, 100)]

ExampleSamples == [i \in 1 .. 100 |-> i - 1]
ExampleOptions == [clipLow |-> 1, clipHigh |-> 99, padLow |-> 50, padHigh |-> 20]

C26_OptionsForceAnalysis ==
    [][ \A vp \in AdraViewports : \A v \in AdraVersions :
           (/\ adra.optionsPending
            /\ adra.clock - adra.lastCalcTime >= 100
            /\ ~adra.isAnalyzing
            /\ UpdateWith(vp, v))
           => /\ adra'.updated
              /\ adra'.isAnalyzing
              /\ adra'.analyses = adra.analyses + 1 ]_vars

\* a second analysis started although only the option signature differed,
\* after setOptions with the values the options already had
C26_Witness ==
    /\ adra.analyses = 2
    /\ adra.changed = {"options"}
    /\ adra.optionCalls = 1
    /\ adra.options = DefaultOptions

\* C27: an analysis that was started ends: the busy flag is cleared when the
\* readback resolves, with or without valid samples, and when it rejects.
C27_BusyCleared == adra.isAnalyzing ~> ~adra.isAnalyzing

\* the readback of an analysis was rejected and the flag is clear
C27_Witness ==
    /\ adra.done.outcome = "failed"
    /\ ~adra.isAnalyzing
    /\ ~adra.mapPending

\* a step in which the readback settles with the given outcome: "stats" for
\* a resolution with at least one valid sample, "empty" for one without,
\* "failed" for a rejection
ReadbackEnds(outcome) ==
    /\ adra.mapPending
    /\ ~adra'.mapPending
    /\ adra'.done.outcome = outcome

\* C28: the current range changes only when a readback resolves with at
\* least one valid sample; a rejected readback and a readback without valid
\* samples leave it as it was.
C28_RangeChangesOnSuccess ==
    [][ /\ adra'.currentStats # adra.currentStats => ReadbackEnds("stats")
        /\ ReadbackEnds("failed") => adra'.currentStats = adra.currentStats
        /\ ReadbackEnds("empty") => adra'.currentStats = adra.currentStats
      ]_vars

\* an analysis without valid samples ended and the range is the one an
\* earlier analysis computed
C28_Witness ==
    /\ adra.done.outcome = "empty"
    /\ adra.analyses = 2
    /\ adra.currentStats # NewAnalyzer.currentStats

\* C34: at most one analysis is in flight: the busy flag is set exactly
\* while a readback is unsettled, and no analysis starts while one is.
C34_OneAnalysisInFlight ==
    [][ /\ adra.isAnalyzing <=> adra.mapPending
        /\ adra'.analyses > adra.analyses =>
              /\ ~adra.mapPending
              /\ ~adra.isAnalyzing
              /\ adra'.analyses = adra.analyses + 1 ]_vars

\* an analysis is in flight, the throttle interval has passed, setOptions was
\* called since it started and an update call has returned "not updated"
C34_Witness ==
    /\ adra.analyses = 1
    /\ adra.mapPending
    /\ adra.optionsPending
    /\ ~adra.updated
    /\ adra.clock - adra.started.time >= 100

\* C35: an analysis starts at least 100 ms after the analysis before it.
C35_StartsThrottled ==
    [][ (adra'.analyses > adra.analyses /\ adra.analyses >= 1) =>
           adra'.started.time - adra.started.time >= 100 ]_vars

\* two analyses were started, the second 100 ms after the first
C35_Witness ==
    /\ adra.analyses = 2
    /\ adra.started.time = 200
    /\ adra.clock = 200

\* C40: once an analysis has ended and the throttle interval has passed
\* since its start, an update call whose viewport signature, options or
\* version differ from those of that analysis starts a new analysis.
C40_NoChangeLost ==
    (/\ adra.analyses >= 1
     /\ ~adra.mapPending
     /\ adra.clock - adra.started.time >= 100)
    => \A vp \in AdraViewports : \A v \in AdraVersions :
          (\/ ViewportSignature(vp) # adra.started.vpSig
           \/ adra.options # adra.started.options
           \/ v # adra.started.version)
          => LET a == Update(adra, vp, v)
             IN /\ a.updated
                /\ a.isAnalyzing
                /\ a.analyses = adra.analyses + 1

\* the first analysis has ended and a second one was started because the
\* version differed, the viewport signature and the options being the same
C40_Witness ==
    /\ adra.analyses = 2
    /\ adra.changed = {"version"}
    /\ adra.done.outcome = "stats"
    /\ adra.mapPending

\* the futures of the tasks the step hands to an executor
Dispatched == {f \in 1 .. Len(futs') :
                  /\ futs'[f].dispatched
                  /\ ~(f <= Len(futs) /\ futs[f].dispatched)}

\* the task of future f took the queue entry of an earlier task of its id:
\* that task's future is pending, was never dispatched and is queued no more
TookEntry(f) ==
    \E g \in 1 .. (f - 1) :
        /\ futs'[g].id = futs'[f].id
        /\ futs'[g].state = "pending" /\ ~futs'[g].dispatched
        /\ \A k \in 1 .. Len(taskQueue') : taskQueue'[k].fut # g
        /\ \A h \in (g + 1) .. (f - 1) : futs'[h].id # futs'[f].id

\* C32 as stated: a task handed to an executor has the highest priority of
\* the queued tasks, and every task of its priority left in the queue was
\* submitted after it.
C32_DispatchOrder ==
    [][ \A i \in 1 .. Len(activeTasks') :
          LET d == activeTasks'[i].task
          IN d.fut \in Dispatched =>
                \A j \in 1 .. Len(taskQueue') :
                    LET q == taskQueue'[j]
                    IN \/ q.priority < d.priority
                       \/ (q.priority = d.priority /\ d.fut < q.fut) ]_vars

\* C32, amended: a task handed to an executor has the highest priority of
\* the queued tasks, and a task of its priority left in the queue was
\* submitted after it unless one of the two took the queue entry of an
\* earlier submission of its id.
C32_DispatchOrderStable ==
    [][ \A i \in 1 .. Len(activeTasks') :
          LET d == activeTasks'[i].task
          IN d.fut \in Dispatched =>
                \A j \in 1 .. Len(taskQueue') :
                    LET q == taskQueue'[j]
                    IN \/ q.priority < d.priority
                       \/ /\ q.priority = d.priority
                          /\ (d.fut < q.fut \/ TookEntry(d.fut) \/ TookEntry(q.fut)) ]_vars

\* a task submitted later was dispatched ahead of a queued task of lower
\* priority, and a task of its own priority, submitted after it, waits
C32_Witness ==
    \E i \in 1 .. Len(activeTasks) : \E j, k \in 1 .. Len(taskQueue) :
        /\ activeTasks[i].task.fut > taskQueue[j].fut
        /\ activeTasks[i].task.priority > taskQueue[j].priority
        /\ activeTasks[i].task.fut < taskQueue[k].fut
        /\ activeTasks[i].task.priority = taskQueue[k].priority

\* C33: the pool is work-conserving: once an operation of the pool has
\* completed, no task waits in the queue while an executor is marked free.
C33_WorkConserving ==
    taskQueue # <<>> => \A w \in DOMAIN workerStatus : workerStatus[w]

\* a reply has freed an executor, the executor was handed the next task of
\* the queue at once, and a task still waits behind it
C33_Witness ==
    /\ taskQueue # <<>>
    /\ \A w \in DOMAIN workerStatus : workerStatus[w]
    /\ \E f \in 1 .. Len(futs) : futs[f].state = "resolved"
    /\ \E i \in 1 .. Len(activeTasks) : activeTasks[i].task.fut > 1

\* the priority of the task of future f after the step, 0 when it has none
PriorityOf(f) ==
    IF \E k \in 1 .. Len(taskQueue') : taskQueue'[k].fut = f
    THEN taskQueue'[CHOOSE k \in 1 .. Len(taskQueue') : taskQueue'[k].fut = f].priority
    ELSE IF \E k \in 1 .. Len(activeTasks') : activeTasks'[k].task.fut = f
    THEN activeTasks'[CHOOSE k \in 1 .. Len(activeTasks') :
                         activeTasks'[k].task.fut = f].task.priority
    ELSE 0

\* C38: of two tiles of the target level requested in one pass of
\* getVisibleTiles, the one whose center is strictly closer to the center of
\* the viewport gets the strictly higher priority, and the pool does not
\* hand the farther one to an executor while the closer one waits.
C38_CloserFirst ==
    [][ \A vp \in GridViewports :
          GridFrameWith(vp) =>
            \A f, g \in (Len(futs) + 1) .. Len(futs') :
                DistSq(objs'[futs'[f].tile], vp) < DistSq(objs'[futs'[g].tile], vp)
                => /\ PriorityOf(f) > PriorityOf(g)
                   /\ ~(futs'[g].dispatched /\ ~futs'[f].dispatched) ]_vars

\* tile (z, x, y) lies in the index range of the viewport at its level
InRange(lv, vp, z, x, y) ==
    LET r == IndexRange(lv, lv[z + 1], vp)
    IN r.startX <= x /\ x < r.endX /\ r.startY <= y /\ y < r.endY

\* C36: a pass of getVisibleTiles creates cache entries and submits decode
\* requests only for tiles of the target level inside the visible index
\* range; of the other levels it returns only tiles that were cached and
\* loaded before the pass.
C36_OnlyTargetLevel ==
    [][ \A vp \in GridViewports :
          GridFrameWith(vp) =>
            LET target == GetBestLevel(levels, vp)
            IN /\ \A i \in 1 .. Len(tiles') :
                    (\A k \in 1 .. Len(tiles) : tiles[k].key # tiles'[i].key) =>
                        LET o == objs'[tiles'[i].obj]
                        IN /\ o.z = target
                           /\ o.id = TileKey(o.z, o.x, o.y)
                           /\ InRange(levels, vp, o.z, o.x, o.y)
               /\ \A f \in (Len(futs) + 1) .. Len(futs') :
                    LET o == objs'[futs'[f].tile]
                    IN /\ futs'[f].kind = "tile"
                       /\ futs'[f].id = o.id
                       /\ o.z = target
                       /\ InRange(levels, vp, o.z, o.x, o.y)
               /\ Len(objs') - Len(objs)
                    = Cardinality({i \in 1 .. Len(tiles') :
                                      \A k \in 1 .. Len(tiles) :
                                          tiles[k].key # tiles'[i].key})
               /\ \A i \in 1 .. Len(visibleTiles') :
                    LET o == visibleTiles'[i]
                    IN (o # 0 /\ objs'[o].z # target) =>
                          /\ o <= Len(objs) /\ objs[o].loaded
                          /\ \E k \in 1 .. Len(tiles) : tiles[k].obj = o ]_vars

\* a pass whose target is level 0 requested two tiles of level 0 while a
\* loaded tile of level 1 is cached, and created no tile of level 1
C36_Witness ==
    /\ \E i \in 1 .. Len(tiles) :
          objs[tiles[i].obj].z = 1 /\ objs[tiles[i].obj].loaded
    /\ \E f, g \in 1 .. Len(futs) :
          /\ f # g /\ futs[f].kind = "tile" /\ futs[g].kind = "tile"
          /\ objs[futs[f].tile].z = 0 /\ objs[futs[g].tile].z = 0
          /\ futs[f].id # futs[g].id
    /\ \E i \in 1 .. Len(visibleTiles) :
          visibleTiles[i] # 0 /\ objs[visibleTiles[i]].z = 1

\* (z, x, y) is a tile of the grid of level z
InGrid(lv, z, x, y) ==
    /\ 0 <= z /\ z < Len(lv)
    /\ 0 <= x /\ x < Ceil(lv[z + 1].width, lv[z + 1].tileWidth)
    /\ 0 <= y /\ y < Ceil(lv[z + 1].height, lv[z + 1].tileHeight)

\* C37: every tile getVisibleTiles has created, and every tile a pass marks
\* required (the tiles its loops visit), lies in the tile grid of its level,
\* whatever the viewport, partly or wholly outside the image included.
C37_TileGridBounds ==
    /\ \A o \in 1 .. Len(objs) : InGrid(levels, objs[o].z, objs[o].x, objs[o].y)
    /\ \A vp \in GridViewports :
          LET coords == VisitOrder(levels, SortedLevels(levels), vp, 1)
          IN \A i \in 1 .. Len(coords) :
                InGrid(levels, coords[i][1], coords[i][2], coords[i][3])

\* a viewport that reaches beyond the image has created the tile of the
\* last column, which the right edge of a 3x2 image cuts, and a viewport
\* wholly outside the image has then left it without a request
C37_Witness ==
    /\ levels[1].width = 3
    /\ \E o \in 1 .. Len(objs) : objs[o].z = 0 /\ objs[o].x = 1
    /\ \E f \in 1 .. Len(futs) : futs[f].id = "0-1-0" /\ futs[f].state = "rejected"

\* the futures that gave a tile its pixel data since the last reset (the
\* last init or setBands call)
DecodedSinceReset ==
    {f \in 1 .. Len(futs) :
        /\ futs[f].kind = "tile" /\ futs[f].state = "resolved"
        /\ futs[f].hasData /\ futs[f].resolvedAt = epoch}

MaxOf(S) == CHOOSE m \in S : \A n \in S : m >= n

C31_InvalidBandsRejected ==
    [][ \A b \in InvalidBands :
          SetBandsWith(b) =>
            UNCHANGED <<tiles, globalMin, globalMax, hasGlobalStats,
                        selectedBands, version>> ]_vars

TypeOK ==
    /\ Len(futs) <= Max2(Max2(MaxFutures, MaxSubmits),
                         Max2(MaxQueueSubmits, MaxGridFutures))
    /\ \A w \in DOMAIN workerStatus : workerStatus[w] \in BOOLEAN
    /\ \A f \in 1 .. Len(futs) : futs[f].state \in {"pending", "resolved", "rejected"}

====
